---- MODULE Spec2Model ----
(***************************************************************************)
(* CP-SAT tournament scheduler (scheduler_core.engine).                    *)
(*                                                                         *)
(* The state is one CPSATScheduler object driven by CPSATBackend.solve:    *)
(* its dictionaries, the CpModel it builds (the decision variables x and   *)
(* the constraints posted on them), the infeasibility reasons recorded     *)
(* while the model is compiled, the internal locked set, and the           *)
(* ScheduleResult it returns.  The OR-tools solver is external: a solve    *)
(* returns any value assignment that satisfies every posted constraint,    *)
(* or reports that it found none.                                          *)
(*                                                                         *)
(* Optional[int] values are modelled as sets: {} is None, {v} is v.        *)
(***************************************************************************)
EXTENDS Integers, Sequences, FiniteSets, TLC

VARIABLES
    request,              \* the ScheduleRequest handed to CPSATBackend.solve
    pc,                   \* position inside CPSATBackend.solve / CPSATScheduler.build
    matches,              \* CPSATScheduler.matches: id -> Match
    match_order,          \* insertion order of the keys of CPSATScheduler.matches
    players,              \* CPSATScheduler.players: id -> Player
    previous_assignments, \* CPSATScheduler.previous_assignments: match id -> PreviousAssignment
    prev_order,           \* insertion order of the keys of previous_assignments
    locked_matches,       \* CPSATScheduler.locked_matches
    x,                    \* keys <<match_id, t, c>> of the decision variables
    start_slot,           \* match id -> <<lo, hi>>, the domain of start[m]
    end_slot,             \* match id -> <<lo, hi>>, the domain of end[m]
    model,                \* the constraints posted on the CpModel
    infeasible_reasons,   \* CPSATScheduler.infeasible_reasons
    solver_calls,         \* number of solver.Solve invocations
    result,               \* the ScheduleResult returned, or NoResult
    locked,               \* GreedyBackend.solve: locked
    slot_court_to_match,  \* GreedyBackend.solve: <<slot, court>> -> match id
    match_to_assignment,  \* GreedyBackend.solve: match id -> Assignment
    moved_count,          \* GreedyBackend.solve: moved_count
    first_run,            \* what an earlier solve of the same problem returned
    state,                \* the TournamentState the live operations work on
    schedule_config,      \* the ScheduleConfig the caller hands to the live operations
    call,                 \* the live operation called last, with its arguments
    calls,                \* number of live operations called so far
    solve_thread,         \* position of solve_in_thread in the executor thread
    solution_count,       \* ProgressCallback.solution_count
    holder,               \* result_holder / error_holder of event_generator
    loop_ready,           \* callbacks handed to loop.call_soon_threadsafe, not yet run
    progress_queue,       \* the asyncio.Queue of event_generator
    consumer,             \* position of the loop of event_generator
    emitted,              \* the events event_generator has yielded
    enqueued              \* the progress events in the order the callbacks handed them over

vars == <<request, pc, matches, match_order, players, previous_assignments,
          prev_order, locked_matches, x, start_slot, end_slot, model,
          infeasible_reasons, solver_calls, result, locked,
          slot_court_to_match, match_to_assignment, moved_count, first_run,
          state, schedule_config, call, calls, solve_thread, solution_count,
          holder, loop_ready, progress_queue, consumer, emitted, enqueued>>

\* The variables of the tournament layer and of the streaming endpoint,
\* which no backend touches.
tournament_vars == <<state, schedule_config, call, calls>>

stream_vars == <<solve_thread, solution_count, holder, loop_ready,
                 progress_queue, consumer, emitted, enqueued>>

caller_vars == <<tournament_vars, stream_vars>>

\* The locals of GreedyBackend.solve.
greedy_vars == <<locked, slot_court_to_match, match_to_assignment, moved_count>>

(***************************************************************************)
(* Bounds of the explored requests.                                        *)
(***************************************************************************)
MaxSlots == 3
MaxCourts == 2
MaxDuration == 2
MaxRest == 1
MaxActual == 2
MaxCalls == 2
MaxSolutions == 3
MaxBracketMatch == 3

(***************************************************************************)
(* Python helpers.                                                         *)
(***************************************************************************)
\* range(a, b)
Range(a, b) == a .. (b - 1)

Max(a, b) == IF a >= b THEN a ELSE b

SeqToSet(s) == {s[i] : i \in 1 .. Len(s)}

\* Keys of a dict filled by "for e in seq: d[key(e)] = e", in insertion order.
RECURSIVE KeyOrder(_)
KeyOrder(ids) ==
    IF ids = <<>> THEN <<>>
    ELSE LET rest == KeyOrder(SubSeq(ids, 1, Len(ids) - 1))
             last == ids[Len(ids)]
         IN IF last \in SeqToSet(rest) THEN rest ELSE Append(rest, last)

\* Value of that dict at key k: the last element of seq stored under k.
LastWith(seq, ids, k) ==
    seq[CHOOSE i \in 1 .. Len(seq) :
            /\ ids[i] = k
            /\ \A j \in (i + 1) .. Len(seq) : ids[j] # k]

RECURSIVE SumOver(_, _)
SumOver(S, f) ==
    IF S = {} THEN 0
    ELSE LET e == CHOOSE e \in S : TRUE
         IN f[e] + SumOver(S \ {e}, f)

\* Concatenation of the sequences f[ids[1]], f[ids[2]], ...
RECURSIVE FlatMap(_, _)
FlatMap(ids, f) ==
    IF ids = <<>> THEN <<>>
    ELSE f[Head(ids)] \o FlatMap(Tail(ids), f)

(***************************************************************************)
(* Domain types.                                                           *)
(***************************************************************************)
NoResult == [status |-> "none"]

NoRun == [kind |-> "none"]

EmptyModel ==
    [ link         |-> {},   \* matches with start[m] == sum(t * x[m,t,c])
      end_link     |-> {},   \* matches with end[m] == start[m] + d
      exactly_one  |-> {},   \* AddExactlyOne(vars)
      at_most_one  |-> {},   \* Add(sum(vars) <= 1)
      soft_overlap |-> {},   \* Add(violation >= sum(vars) - 1)
      fixed_zero   |-> {},   \* Add(x == 0)
      fixed_one    |-> {},   \* Add(x == 1)
      rest         |-> {},   \* ordered rest constraints
      proximity    |-> {},   \* ordered game-proximity constraints
      disruption   |-> {},   \* start[m] - prev == diff_pos - diff_neg
      court_change |-> {},   \* sum(same_court_vars) + court_changed == 1
      late_finish  |-> {},   \* matches with a late-finish term
      makespan     |-> {},   \* Add(makespan >= end[m])
      overshoot    |-> {},   \* Add(overshoot >= end[m] - target)
      objective    |-> FALSE ]

get_player_ids_side_a(match) == SeqToSet(match.side_a)

\* get_player_ids(match)
get_player_ids(match) == SeqToSet(match.side_a) \cup SeqToSet(match.side_b)

Reason(kind, subject, detail) ==
    [kind |-> kind, subject |-> subject, detail |-> detail]

\* The x keys of match m, and those among them that occupy slot s.
VarsOf(m) == {k \in x : k[1] = m}

Occupying(m, s) ==
    {k \in VarsOf(m) :
        k[2] \in Range(Max(0, s - matches[m].duration_slots + 1), s + 1)}

\* player_matches[player_id]: the matches of a player, in dict order.
PlayerMatches(p) ==
    SelectSeq(match_order, LAMBDA m : p \in get_player_ids(matches[m]))

AllPlayerIds == UNION {get_player_ids(matches[m]) : m \in DOMAIN matches}

(***************************************************************************)
(* CPSATBackend.solve, lines 41-47: the scheduler is constructed and fed   *)
(* the request.                                                            *)
(***************************************************************************)
PlayerIds(req) == [i \in 1 .. Len(req.players) |-> req.players[i].id]
MatchIds(req) == [i \in 1 .. Len(req.matches) |-> req.matches[i].id]
PrevIds(req) ==
    [i \in 1 .. Len(req.previous_assignments) |->
        req.previous_assignments[i].match_id]

add_players(req) ==
    [k \in SeqToSet(PlayerIds(req)) |-> LastWith(req.players, PlayerIds(req), k)]

add_matches(req) ==
    [k \in SeqToSet(MatchIds(req)) |-> LastWith(req.matches, MatchIds(req), k)]

\* A version that stores the entries without recording the locked ids.
set_previous_assignments_unrecorded(req) ==
    [ dict   |-> [k \in SeqToSet(PrevIds(req)) |->
                    LastWith(req.previous_assignments, PrevIds(req), k)],
      locked |-> {} ]

set_previous_assignments(req) ==
    [ dict   |-> [k \in SeqToSet(PrevIds(req)) |->
                    LastWith(req.previous_assignments, PrevIds(req), k)],
      locked |-> {req.previous_assignments[i].match_id :
                    i \in {j \in 1 .. Len(req.previous_assignments) :
                            req.previous_assignments[j].locked}} ]

Configure ==
    /\ pc = "new"
    /\ players' = add_players(request)
    /\ matches' = add_matches(request)
    /\ match_order' = KeyOrder(MatchIds(request))
    /\ previous_assignments' = set_previous_assignments(request).dict
    /\ prev_order' = KeyOrder(PrevIds(request))
    /\ locked_matches' = set_previous_assignments(request).locked
    /\ pc' = "configured"
    /\ UNCHANGED <<caller_vars, request, greedy_vars, first_run, x, start_slot, end_slot, model,
                   infeasible_reasons, solver_calls, result>>

(***************************************************************************)
(* CPSATScheduler.build, one action per step.                              *)
(***************************************************************************)
create_variables(ms, config) ==
    [ x     |-> UNION {{<<m, t, c>> :
                            t \in Range(0, config.total_slots
                                             - ms[m].duration_slots + 1),
                            c \in Range(1, config.court_count + 1)} :
                       m \in DOMAIN ms},
      start |-> [m \in DOMAIN ms |->
                    <<0, config.total_slots - ms[m].duration_slots>>],
      end   |-> [m \in DOMAIN ms |->
                    <<ms[m].duration_slots, config.total_slots>>] ]

CreateVariables ==
    /\ pc = "configured"
    /\ LET v == create_variables(matches, request.config)
       IN /\ x' = v.x
          /\ start_slot' = v.start
          /\ end_slot' = v.end
          /\ model' = [model EXCEPT !.end_link = DOMAIN matches]
    /\ pc' = "variables"
    /\ UNCHANGED <<caller_vars, request, greedy_vars, first_run, matches, match_order, players,
                   previous_assignments, prev_order, locked_matches,
                   infeasible_reasons, solver_calls, result>>

link_start_to_x == {m \in DOMAIN matches : VarsOf(m) # {}}

LinkStartToX ==
    /\ pc = "variables"
    /\ model' = [model EXCEPT !.link = link_start_to_x]
    /\ pc' = "linked"
    /\ UNCHANGED <<caller_vars, request, greedy_vars, first_run, matches, match_order, players,
                   previous_assignments, prev_order, locked_matches, x,
                   start_slot, end_slot, infeasible_reasons, solver_calls,
                   result>>

\* The build steps that only post constraints leave everything else alone.
BuildFrame ==
    UNCHANGED <<caller_vars, request, greedy_vars, first_run, matches, match_order, players, previous_assignments,
                prev_order, x, start_slot, end_slot, solver_calls, result>>

\* _add_exactly_once_constraint: all_vars of one match.
ExactlyOnceGroup(m) == VarsOf(m)

ExactlyOnceGroups_unposted == {}

\* The groups AddExactlyOne is posted on.
ExactlyOnceGroups == {ExactlyOnceGroup(m) : m \in DOMAIN matches} \ {{}}

add_exactly_once_constraint ==
    [ groups  |-> ExactlyOnceGroups,
      reasons |-> FlatMap(match_order,
                    [m \in DOMAIN matches |->
                        IF ExactlyOnceGroup(m) # {} THEN <<>>
                        ELSE <<Reason("no_valid_slots", m, <<>>)>>]) ]

AddExactlyOnce ==
    /\ pc = "linked"
    /\ model' = [model EXCEPT !.exactly_one = add_exactly_once_constraint.groups]
    /\ infeasible_reasons' =
            infeasible_reasons \o add_exactly_once_constraint.reasons
    /\ pc' = "exactly_once"
    /\ UNCHANGED locked_matches
    /\ BuildFrame

\* A capacity check that only looks at the matches starting at s.
CourtVars_start_only(s, c) == {k \in x : k[2] = s /\ k[3] = c}

\* _add_court_capacity_constraint: overlapping_vars of (s, c).
CourtVars(s, c) ==
    {k \in UNION {Occupying(m, s) : m \in DOMAIN matches} : k[3] = c}

add_court_capacity_constraint ==
    {g \in {CourtVars(s, c) : s \in Range(0, request.config.total_slots),
                              c \in Range(1, request.config.court_count + 1)} :
        Cardinality(g) > 1}

AddCourtCapacity ==
    /\ pc = "exactly_once"
    /\ model' = [model EXCEPT
                    !.at_most_one = @ \cup add_court_capacity_constraint]
    /\ pc' = "court_capacity"
    /\ UNCHANGED <<locked_matches, infeasible_reasons>>
    /\ BuildFrame

\* _add_player_nonoverlap_constraint: overlapping_vars of (player, s).
PlayerVars(p, s) ==
    UNION {Occupying(m, s) : m \in SeqToSet(PlayerMatches(p))}

PlayerSlots ==
    {ps \in AllPlayerIds \X Range(0, request.config.total_slots) :
        /\ Len(PlayerMatches(ps[1])) > 1
        /\ Cardinality(PlayerVars(ps[1], ps[2])) > 1}

add_player_nonoverlap_constraint ==
    IF request.config.allow_player_overlap
    THEN [ hard |-> {},
           soft |-> {[player_id |-> ps[1], s |-> ps[2],
                      vars |-> PlayerVars(ps[1], ps[2])] : ps \in PlayerSlots} ]
    ELSE [ hard |-> {PlayerVars(ps[1], ps[2]) : ps \in PlayerSlots},
           soft |-> {} ]

AddPlayerNonoverlap ==
    /\ pc = "court_capacity"
    /\ model' = [model EXCEPT
            !.at_most_one = @ \cup add_player_nonoverlap_constraint.hard,
            !.soft_overlap = add_player_nonoverlap_constraint.soft]
    /\ pc' = "player_nonoverlap"
    /\ UNCHANGED <<locked_matches, infeasible_reasons>>
    /\ BuildFrame

\* An availability check that lets several windows cover the match jointly.
is_available_jointly(availability, t, d) ==
    \A s \in Range(t, t + d) :
        \E i \in 1 .. Len(availability) :
            availability[i][1] <= s /\ s < availability[i][2]

\* _add_availability_constraint: is_available for one player and start t.
is_available(availability, t, d) ==
    \E i \in 1 .. Len(availability) :
        \A s \in Range(t, t + d) :
            availability[i][1] <= s /\ s < availability[i][2]

\* A constraint that also forbids a start whose match ends with a window.
add_availability_constraint_end_excluded ==
    {k \in x :
        \E p \in get_player_ids(matches[k[1]]) :
            /\ p \in DOMAIN players
            /\ players[p].availability # <<>>
            /\ ~ is_available(players[p].availability, k[2],
                              matches[k[1]].duration_slots + 1)}

add_availability_constraint ==
    {k \in x :
        \E p \in get_player_ids(matches[k[1]]) :
            /\ p \in DOMAIN players
            /\ players[p].availability # <<>>
            /\ ~ is_available(players[p].availability, k[2],
                              matches[k[1]].duration_slots)}

AddAvailability ==
    /\ pc = "player_nonoverlap"
    /\ model' = [model EXCEPT !.fixed_zero = @ \cup add_availability_constraint]
    /\ pc' = "availability"
    /\ UNCHANGED <<locked_matches, infeasible_reasons>>
    /\ BuildFrame

\* The previous assignments the lock/pin and freeze loops look at.
KnownPrev == {m \in DOMAIN previous_assignments : m \in DOMAIN matches}

\* A pin test by truthiness: a pin at slot 0 counts as no pin.
PinExcludes_truthy(a, t, c) ==
    \/ /\ a.pinned_slot_id \notin {{}, {0}}
       /\ t \notin a.pinned_slot_id
    \/ /\ a.pinned_court_id \notin {{}, {0}}
       /\ c \notin a.pinned_court_id

\* Lines 391-404: the pins of a non-locked assignment fix x[m, t, c] to 0.
PinExcludes(a, t, c) ==
    \/ /\ a.pinned_slot_id # {}
       /\ t \notin a.pinned_slot_id
    \/ /\ a.pinned_court_id # {}
       /\ c \notin a.pinned_court_id

\* _add_lock_pin_constraints
add_lock_pin_constraints ==
    [ fixed_one  |-> {k \in x :
                        /\ k[1] \in KnownPrev
                        /\ previous_assignments[k[1]].locked
                        /\ k[2] = previous_assignments[k[1]].slot_id
                        /\ k[3] = previous_assignments[k[1]].court_id},
      fixed_zero |-> {k \in x :
                        /\ k[1] \in KnownPrev
                        /\ ~ previous_assignments[k[1]].locked
                        /\ PinExcludes(previous_assignments[k[1]], k[2], k[3])},
      reasons    |-> FlatMap(prev_order,
                        [m \in DOMAIN previous_assignments |->
                            IF /\ m \in KnownPrev
                               /\ previous_assignments[m].locked
                               /\ <<m, previous_assignments[m].slot_id,
                                       previous_assignments[m].court_id>> \notin x
                            THEN <<Reason("locked_invalid", m,
                                    <<previous_assignments[m].slot_id,
                                      previous_assignments[m].court_id>>)>>
                            ELSE <<>>]) ]

AddLockPin ==
    /\ pc = "availability"
    /\ model' = [model EXCEPT
            !.fixed_one = @ \cup add_lock_pin_constraints.fixed_one,
            !.fixed_zero = @ \cup add_lock_pin_constraints.fixed_zero]
    /\ infeasible_reasons' = infeasible_reasons \o add_lock_pin_constraints.reasons
    /\ pc' = "lock_pin"
    /\ UNCHANGED locked_matches
    /\ BuildFrame

\* _add_freeze_horizon_constraint: the matches it fixes and marks locked.
add_freeze_horizon_constraint ==
    LET freeze_until == request.config.current_slot
                        + request.config.freeze_horizon_slots
    IN {m \in KnownPrev :
            /\ ~ previous_assignments[m].locked
            /\ previous_assignments[m].slot_id < freeze_until
            /\ <<m, previous_assignments[m].slot_id,
                    previous_assignments[m].court_id>> \in x}

AddFreezeHorizon ==
    /\ pc = "lock_pin"
    /\ model' = [model EXCEPT !.fixed_one = @ \cup
            {<<m, previous_assignments[m].slot_id,
                  previous_assignments[m].court_id>> :
                m \in add_freeze_horizon_constraint}]
    /\ locked_matches' = locked_matches \cup add_freeze_horizon_constraint
    /\ pc' = "freeze_horizon"
    /\ UNCHANGED infeasible_reasons
    /\ BuildFrame

\* Pairs (m_i, m_j), i < j, of the matches of player p.
MatchPairs(p) ==
    LET pm == PlayerMatches(p)
    IN UNION {{<<pm[i], pm[j]>> : j \in Range(i + 1, Len(pm) + 1)} :
                i \in Range(1, Len(pm) + 1)}

\* _add_rest_constraint
rest_slots_of(p) ==
    IF p \in DOMAIN players THEN players[p].rest_slots
    ELSE request.config.default_rest_slots

rest_is_hard_of(p) ==
    IF p \in DOMAIN players THEN players[p].rest_is_hard ELSE TRUE

add_rest_constraint ==
    UNION {{[player_id  |-> p, m_i |-> pr[1], m_j |-> pr[2],
             rest_slots |-> rest_slots_of(p),
             hard       |-> rest_is_hard_of(p)
                            \/ ~ request.config.soft_rest_enabled] :
                pr \in MatchPairs(p)} : p \in AllPlayerIds}

AddRest ==
    /\ pc = "freeze_horizon"
    /\ model' = [model EXCEPT !.rest = add_rest_constraint]
    /\ pc' = "rest"
    /\ UNCHANGED <<locked_matches, infeasible_reasons>>
    /\ BuildFrame

\* _add_game_proximity_constraint
add_game_proximity_constraint ==
    IF ~ request.config.enable_game_proximity THEN {}
    ELSE IF /\ request.config.min_game_spacing_slots = {}
            /\ request.config.max_game_spacing_slots = {}
    THEN {}
    ELSE UNION {{[player_id   |-> p, m_i |-> pr[1], m_j |-> pr[2],
                  min_spacing |-> request.config.min_game_spacing_slots,
                  max_spacing |-> request.config.max_game_spacing_slots] :
                    pr \in MatchPairs(p)} : p \in AllPlayerIds}

AddGameProximity ==
    /\ pc = "rest"
    /\ model' = [model EXCEPT !.proximity = add_game_proximity_constraint]
    /\ pc' = "game_proximity"
    /\ UNCHANGED <<locked_matches, infeasible_reasons>>
    /\ BuildFrame

\* _build_objective: the disruption terms tie start[m] to the previous
\* slot through diff_pos and diff_neg, both in [0, total_slots].
build_objective ==
    IF DOMAIN previous_assignments # {} /\ request.config.disruption_penalty > 0
    THEN {m \in KnownPrev : m \notin locked_matches}
    ELSE {}

\* Lines 621-630: the x variables of m on its previous court.
same_court_vars(m) ==
    {k \in x : /\ k[1] = m
               /\ k[3] = previous_assignments[m].court_id
               /\ k[2] \in Range(0, request.config.total_slots
                                       - matches[m].duration_slots + 1)}

\* _build_objective also records the matches with a court-change term
\* (lines 621-635), a late-finish term (637-642), a makespan constraint
\* (648-655) and an overshoot term (676-684).  The no_gaps mode is left
\* out: no request uses it.
BuildObjective ==
    /\ pc = "game_proximity"
    /\ LET config == request.config
           unlocked == DOMAIN matches \ locked_matches
           compact == /\ config.enable_compact_schedule
                      /\ config.compact_schedule_penalty > 0
       IN  model' = [model EXCEPT
                !.disruption = build_objective,
                !.court_change =
                    IF config.court_change_penalty > 0
                    THEN {m \in build_objective : same_court_vars(m) # {}}
                    ELSE {},
                !.late_finish =
                    IF config.late_finish_penalty > 0 THEN unlocked ELSE {},
                !.makespan =
                    IF compact /\ config.compact_schedule_mode = "minimize_makespan"
                    THEN unlocked ELSE {},
                !.overshoot =
                    IF /\ compact
                       /\ config.compact_schedule_mode = "finish_by_time"
                       /\ config.target_finish_slot # {}
                    THEN unlocked ELSE {},
                !.objective = TRUE]
    /\ pc' = "built"
    /\ UNCHANGED <<locked_matches, infeasible_reasons>>
    /\ BuildFrame

(***************************************************************************)
(* The solver.  A value assignment gives every x variable 0 or 1 (ones is  *)
(* the set of the variables at 1) and every start[m] a value; the          *)
(* orientation booleans and the slack variables are existential.           *)
(***************************************************************************)
StartSum(ones, m) ==
    LET mine == {k \in ones : k[1] = m}
    IN SumOver(mine, [k \in mine |-> k[2]])

StartChoices(ones, m) ==
    {v \in start_slot[m][1] .. start_slot[m][2] :
        /\ m \in model.link => v = StartSum(ones, m)
        /\ m \in model.end_link =>
                v + matches[m].duration_slots
                    \in end_slot[m][1] .. end_slot[m][2]}

StartAssignments(ones) ==
    IF \E m \in DOMAIN matches : StartChoices(ones, m) = {} THEN {}
    ELSE IF \A m \in DOMAIN matches : Cardinality(StartChoices(ones, m)) = 1
    THEN {[m \in DOMAIN matches |-> CHOOSE v \in StartChoices(ones, m) : TRUE]}
    ELSE {st \in [DOMAIN matches -> 0 .. request.config.total_slots] :
            \A m \in DOMAIN matches : st[m] \in StartChoices(ones, m)}

EndOf(st, m) == st[m] + matches[m].duration_slots

\* A rest check that forgets the rest when m_j comes first.
RestHolds_one_sided(r, st) ==
    \/ EndOf(st, r.m_i) + r.rest_slots <= st[r.m_j]
    \/ EndOf(st, r.m_j) <= st[r.m_i]

RestHolds(r, st) ==
    IF r.hard
    THEN \/ EndOf(st, r.m_i) + r.rest_slots <= st[r.m_j]
         \/ EndOf(st, r.m_j) + r.rest_slots <= st[r.m_i]
    ELSE \E slack \in 0 .. r.rest_slots :
            \/ EndOf(st, r.m_i) + r.rest_slots - slack <= st[r.m_j]
            \/ EndOf(st, r.m_j) + r.rest_slots - slack <= st[r.m_i]

ProximityOriented(q, st, first, second) ==
    /\ EndOf(st, first) <= st[second]
    /\ \A mn \in q.min_spacing :
            \E slack_min \in 0 .. mn :
                st[second] - EndOf(st, first) + slack_min >= mn
    /\ \A mx \in q.max_spacing :
            \E slack_max \in 0 .. request.config.total_slots :
                st[second] - EndOf(st, first) - slack_max <= mx

ProximityHolds(q, st) ==
    \/ ProximityOriented(q, st, q.m_i, q.m_j)
    \/ ProximityOriented(q, st, q.m_j, q.m_i)

DisruptionHolds(m, st) ==
    \E diff_pos \in 0 .. request.config.total_slots :
        \E diff_neg \in 0 .. request.config.total_slots :
            st[m] - previous_assignments[m].slot_id = diff_pos - diff_neg

Satisfies(ones) ==
    /\ \A g \in model.exactly_one : Cardinality(g \cap ones) = 1
    /\ \A g \in model.at_most_one : Cardinality(g \cap ones) <= 1
    /\ \A v \in model.soft_overlap :
            \E violation \in 0 .. (Cardinality(v.vars) - 1) :
                violation >= Cardinality(v.vars \cap ones) - 1
    /\ model.fixed_zero \cap ones = {}
    /\ model.fixed_one \subseteq ones
    /\ \E st \in StartAssignments(ones) :
            /\ \A r \in model.rest : RestHolds(r, st)
            /\ \A q \in model.proximity : ProximityHolds(q, st)
            /\ \A m \in model.disruption : DisruptionHolds(m, st)

\* Every value assignment has exactly one variable at 1 in each
\* AddExactlyOne group; the variables in no group are free.
Candidates ==
    LET groups == model.exactly_one
        free   == (x \ UNION groups) \ model.fixed_zero
        picks  == {f \in [groups -> x] : \A g \in groups : f[g] \in g}
    IN {{f[g] : g \in groups} \cup extra : f \in picks, extra \in SUBSET free}

Solutions == {ones \in Candidates : Satisfies(ones)}

(***************************************************************************)
(* The values behind a solution.  Besides the x variables a solution gives *)
(* every start[m] and every rest slack a value; the slack of a soft rest   *)
(* constraint is any value of [0, rest_slots] that satisfies the           *)
(* constraint under one of the two orders.                                 *)
(***************************************************************************)
SoftRest == {r \in model.rest : ~ r.hard}

SlackValues(r, st) ==
    {slack \in 0 .. r.rest_slots :
        \/ EndOf(st, r.m_i) + r.rest_slots - slack <= st[r.m_j]
        \/ EndOf(st, r.m_j) + r.rest_slots - slack <= st[r.m_i]}

SlackChoices(st) ==
    LET top == SumOver(SoftRest, [r \in SoftRest |-> r.rest_slots])
    IN {slack \in [SoftRest -> 0 .. top] :
            \A r \in SoftRest : slack[r] \in SlackValues(r, st)}

Completions(ones) ==
    UNION {{[start |-> st, slack |-> slack] : slack \in SlackChoices(st)} :
            st \in {st \in StartAssignments(ones) :
                        /\ \A r \in model.rest : RestHolds(r, st)
                        /\ \A q \in model.proximity : ProximityHolds(q, st)
                        /\ \A m \in model.disruption : DisruptionHolds(m, st)}}

(***************************************************************************)
(* _build_objective: the value of the minimised sum under a solution.  The *)
(* variables that appear only in the objective (court_occupied of a cell   *)
(* no match can occupy, diff_pos and diff_neg, court_changed, the overlap  *)
(* violation) take their values of least cost.                             *)
(***************************************************************************)
\* int(w * 10) of a weight w kept in hundredths.
Coefficient(w) == w \div 10

rest_penalty_of(p) ==
    IF p \in DOMAIN players THEN players[p].rest_penalty
    ELSE request.config.rest_slack_penalty

\* Lines 553-590: idle_slots, the cells of the grid that some variable of
\* x occupies and no variable at 1 does.
idle_slots(ones) ==
    LET grid == Range(0, request.config.total_slots)
                    \X (1 .. request.config.court_count)
        cells(keys) ==
            UNION {{<<s, k[3]>> :
                        s \in Range(k[2], k[2] + matches[k[1]].duration_slots)} :
                    k \in keys}
    IN Cardinality((cells(x) \cap grid) \ cells(ones))

\* The sum of objective_terms: court utilization (lines 553-590), rest
\* slack (592-596), disruption with diff_pos + diff_neg = |start - prev|
\* (608-619), court change (621-635), late finish (637-642), makespan
\* (648-656), finish-by-time overshoot (676-684) and player overlap
\* (686-689); makespan and overshoot take their least values.
ObjectiveValue(ones, st, slack) ==
    LET config == request.config
        distance(a, b) == IF a >= b THEN a - b ELSE b - a
        court_utilization ==
            IF config.enable_court_utilization
                    /\ config.court_utilization_penalty > 0
            THEN Coefficient(config.court_utilization_penalty) * idle_slots(ones)
            ELSE 0
        rest_slack ==
            IF config.soft_rest_enabled
            THEN SumOver(SoftRest,
                         [r \in SoftRest |->
                            Coefficient(rest_penalty_of(r.player_id)) * slack[r]])
            ELSE 0
        disruption ==
            SumOver(model.disruption,
                    [m \in model.disruption |->
                        Coefficient(config.disruption_penalty)
                            * distance(st[m], previous_assignments[m].slot_id)])
        court_change ==
            IF config.court_change_penalty > 0
            THEN SumOver(model.court_change,
                         [m \in model.court_change |->
                            IF same_court_vars(m) \cap ones = {}
                            THEN Coefficient(config.court_change_penalty)
                            ELSE 0])
            ELSE 0
        late_finish ==
            IF config.late_finish_penalty > 0
            THEN SumOver(model.late_finish,
                         [m \in model.late_finish |->
                            Coefficient(config.late_finish_penalty) * st[m]])
            ELSE 0
        end(m) == st[m] + matches[m].duration_slots
        makespan ==
            IF /\ config.enable_compact_schedule
               /\ config.compact_schedule_penalty > 0
               /\ config.compact_schedule_mode = "minimize_makespan"
            THEN Coefficient(config.compact_schedule_penalty)
                    * (CHOOSE v \in 0 .. config.total_slots :
                        /\ \A m \in model.makespan : v >= end(m)
                        /\ \A w \in 0 .. (v - 1) :
                                \E m \in model.makespan : w < end(m))
            ELSE 0
        overshoot ==
            SumOver(model.overshoot,
                    [m \in model.overshoot |->
                        Coefficient(config.compact_schedule_penalty)
                            * Max(0, end(m) - (CHOOSE t \in config.target_finish_slot : TRUE))])
        player_overlap ==
            IF config.allow_player_overlap /\ config.player_overlap_penalty > 0
            THEN SumOver(model.soft_overlap,
                         [v \in model.soft_overlap |->
                            Coefficient(config.player_overlap_penalty)
                                * Max(0, Cardinality(v.vars \cap ones) - 1)])
            ELSE 0
    IN court_utilization + rest_slack + disruption + court_change
            + late_finish + makespan + overshoot + player_overlap

\* Line 827: "solver.ObjectiveValue() if solver.ObjectiveValue() else None".
objective_score(value) == IF value # 0 THEN {value} ELSE {}

\* extract_solution, lines 68-79: one SoftViolation per positive rest
\* slack, penalty_incurred in hundredths.  soft_violations is a list; the
\* model keeps the key of rest_slack in each entry, which keeps the entries
\* of one player apart.
soft_violations(slack) ==
    IF request.config.soft_rest_enabled
    THEN {[ type             |-> "rest",
            player_id        |-> r.player_id,
            key              |-> <<r.player_id, r.m_i, r.m_j>>,
            slack_val        |-> slack[r],
            penalty_incurred |-> slack[r] * rest_penalty_of(r.player_id) ] :
                r \in {r \in SoftRest : slack[r] > 0}}
    ELSE {}

(***************************************************************************)
(* extract_solution: the assignments in dict order and the moved count.    *)
(***************************************************************************)
\* The first key of match m in x.items() whose variable is 1.
FirstOne(ones, m) ==
    LET mine == {k \in ones : k[1] = m}
    IN CHOOSE k \in mine :
            \A o \in mine : k[2] < o[2] \/ (k[2] = o[2] /\ k[3] <= o[3])

\* A moved test that overlooks a change of court.
IsMoved_slot_only(m, t, c) ==
    /\ m \in DOMAIN previous_assignments
    /\ m \notin locked_matches
    /\ previous_assignments[m].slot_id # t

\* Lines 49-54 of extract_solution.
IsMoved(m, t, c) ==
    /\ m \in DOMAIN previous_assignments
    /\ m \notin locked_matches
    /\ \/ previous_assignments[m].slot_id # t
       \/ previous_assignments[m].court_id # c

ExtractOne(ones, m) ==
    LET k == FirstOne(ones, m)
        moved == IsMoved(m, k[2], k[3])
    IN [ match_id          |-> m,
         slot_id           |-> k[2],
         court_id          |-> k[3],
         duration_slots    |-> matches[m].duration_slots,
         moved             |-> moved,
         previous_slot_id  |-> IF moved THEN {previous_assignments[m].slot_id}
                               ELSE {},
         previous_court_id |-> IF moved THEN {previous_assignments[m].court_id}
                               ELSE {} ]

RECURSIVE extract_solution(_, _)
extract_solution(ones, ids) ==
    IF ids = <<>> THEN [assignments |-> <<>>, moved_count |-> 0]
    ELSE LET before == extract_solution(ones, SubSeq(ids, 1, Len(ids) - 1))
             m == ids[Len(ids)]
         IN IF {k \in ones : k[1] = m} = {} THEN before
            ELSE [ assignments |-> Append(before.assignments, ExtractOne(ones, m)),
                   moved_count |-> before.moved_count
                                   + (IF ExtractOne(ones, m).moved THEN 1 ELSE 0) ]

(***************************************************************************)
(* diagnose_infeasibility                                                  *)
(***************************************************************************)
\* slots_needed of a player: the durations of the matches containing them.
SlotsNeeded(p) ==
    LET mine == {m \in DOMAIN matches : p \in get_player_ids(matches[m])}
    IN SumOver(mine, [m \in mine |-> matches[m].duration_slots])

AvailableSlots(availability) ==
    SumOver(1 .. Len(availability),
            [i \in 1 .. Len(availability) |->
                availability[i][2] - availability[i][1]])

ShortPlayers ==
    {p \in AllPlayerIds :
        /\ p \in DOMAIN players
        /\ players[p].availability # <<>>
        /\ SlotsNeeded(p) > AvailableSlots(players[p].availability)}

\* Index in dict order of the first match that contains p.
FirstMatchIndex(p) ==
    CHOOSE i \in 1 .. Len(match_order) :
        /\ p \in get_player_ids(matches[match_order[i]])
        /\ \A j \in 1 .. (i - 1) : p \notin get_player_ids(matches[match_order[j]])

\* Counter insertion orders: matches in dict order, the players of one
\* match in the (unspecified) iteration order of a Python set.
CounterOrders(S) ==
    {q \in [1 .. Cardinality(S) -> S] :
        /\ \A i, j \in 1 .. Cardinality(S) : i # j => q[i] # q[j]
        /\ \A i, j \in 1 .. Cardinality(S) :
                i < j => FirstMatchIndex(q[i]) <= FirstMatchIndex(q[j])}

DiagnosedReasons(existing_reasons, order) ==
    LET total_match_slots ==
            SumOver(DOMAIN matches,
                    [m \in DOMAIN matches |-> matches[m].duration_slots])
        total_capacity ==
            request.config.total_slots * request.config.court_count
    IN existing_reasons
       \o (IF DOMAIN matches = {}
           THEN <<Reason("no_matches", "", <<>>)>> ELSE <<>>)
       \o (IF total_match_slots > total_capacity
           THEN <<Reason("capacity", "", <<total_match_slots, total_capacity>>)>>
           ELSE <<>>)
       \o [i \in 1 .. Len(order) |->
               Reason("player_capacity", order[i],
                      <<SlotsNeeded(order[i]),
                        AvailableSlots(players[order[i]].availability)>>)]

diagnose_infeasibility_no_fallback(existing_reasons, order) ==
    DiagnosedReasons(existing_reasons, order)

diagnose_infeasibility(existing_reasons, order) ==
    IF DiagnosedReasons(existing_reasons, order) = <<>>
    THEN <<Reason("unknown_cause", "", <<>>)>>
    ELSE DiagnosedReasons(existing_reasons, order)

(***************************************************************************)
(* CPSATScheduler.solve                                                    *)
(***************************************************************************)
\* What solver.Solve may return: a status with the set of x variables at 1.
\* UNKNOWN (time limit) and MODEL_INVALID are anomalies of the external
\* solver; INFEASIBLE is returned only when no value assignment exists.
SolverOutcomes ==
    UNION {{[status |-> st, ones |-> ones, values |-> v] :
                st \in {"optimal", "feasible"}, v \in Completions(ones)} :
            ones \in Solutions}
    \cup {[status |-> st, ones |-> {}] : st \in {"unknown", "model_invalid"}}
    \cup (IF Solutions = {} THEN {[status |-> "infeasible", ones |-> {}]}
          ELSE {})

ScheduleResult(status, assignments, reasons, unscheduled, moved, locked_n) ==
    [ status              |-> status,
      assignments         |-> assignments,
      infeasible_reasons  |-> reasons,
      unscheduled_matches |-> unscheduled,
      moved_count         |-> moved,
      locked_count        |-> locked_n,
      soft_violations     |-> {},
      objective_score     |-> {} ]

HasPreconditionReasons_never == FALSE

\* Line 766: "if self.infeasible_reasons".
HasPreconditionReasons == infeasible_reasons # <<>>

\* Lines 766-775: reasons recorded during the build short-circuit the solve.
SolveShortCircuit ==
    ScheduleResult("infeasible", <<>>, infeasible_reasons, match_order, 0, 0)

\* Lines 808-848: the result built from what the solver returned.
SolveResult(outcome, order) ==
    IF outcome.status \in {"optimal", "feasible"}
    THEN LET e == extract_solution(outcome.ones, match_order)
             v == outcome.values
         IN [ScheduleResult(outcome.status, e.assignments, <<>>, <<>>,
                            e.moved_count, Cardinality(locked_matches))
                EXCEPT !.soft_violations = soft_violations(v.slack),
                       !.objective_score =
                            objective_score(ObjectiveValue(outcome.ones,
                                                           v.start, v.slack))]
    ELSE ScheduleResult(outcome.status, <<>>,
                        diagnose_infeasibility(infeasible_reasons, order),
                        match_order, 0, 0)

\* Every result solve may return for the model that was built.
PossibleResults ==
    IF HasPreconditionReasons THEN {SolveShortCircuit}
    ELSE {SolveResult(outcome, order) :
            outcome \in SolverOutcomes, order \in CounterOrders(ShortPlayers)}

\* What a solve that will be compared with a second one leaves in
\* first_run: the statuses it may return, the value assignments of x the
\* solver may choose from, and the reasons it may give with each status.
Outlook ==
    [ kind       |-> "widen_pending",
      statuses   |-> {r.status : r \in PossibleResults},
      admissible |-> IF HasPreconditionReasons THEN {} ELSE Solutions,
      reasons    |-> {<<r.status, r.infeasible_reasons>> : r \in PossibleResults} ]

Solve ==
    /\ pc = "built"
    /\ first_run' = IF first_run.kind = "widen_pending"
                    THEN Outlook
                    ELSE first_run
    /\ IF HasPreconditionReasons
       THEN /\ result' = SolveShortCircuit
            /\ UNCHANGED solver_calls
       ELSE /\ solver_calls' = solver_calls + 1
            /\ \E outcome \in SolverOutcomes :
                \E order \in CounterOrders(ShortPlayers) :
                    result' = SolveResult(outcome, order)
    /\ pc' = "done"
    /\ UNCHANGED <<caller_vars, request, greedy_vars, matches, match_order, players,
                   previous_assignments, prev_order, locked_matches, x,
                   start_slot, end_slot, model, infeasible_reasons>>

(***************************************************************************)
(* GreedyBackend.solve.  matches, players and previous_assignments hold    *)
(* its matches_by_id, players_by_id and prev_by_match.                     *)
(***************************************************************************)
\* Line 124: the match ids in request order (an id may repeat).
order == MatchIds(request)

freeze_until ==
    request.config.current_slot + request.config.freeze_horizon_slots

\* Lines 76-81: the locked ids and the ids frozen by the horizon.
locked_ids(req) ==
    {req.previous_assignments[i].match_id :
        i \in {j \in 1 .. Len(req.previous_assignments) :
                \/ req.previous_assignments[j].locked
                \/ req.previous_assignments[j].slot_id < freeze_until}}

GreedyConfigure ==
    /\ pc = "greedy_new"
    /\ matches' = add_matches(request)
    /\ players' = add_players(request)
    /\ previous_assignments' = set_previous_assignments(request).dict
    /\ locked' = locked_ids(request)
    /\ slot_court_to_match' = << >>
    /\ match_to_assignment' = << >>
    /\ moved_count' = 0
    /\ pc' = "greedy_configured"
    /\ UNCHANGED <<caller_vars, request, first_run, match_order, prev_order,
                   locked_matches, x, start_slot, end_slot, model,
                   infeasible_reasons, solver_calls, result>>

player_ids(m) == SeqToSet(m.side_a) \cup SeqToSet(m.side_b)

occupies(slot, court, duration) ==
    {<<slot + i, court>> : i \in Range(0, duration)}

\* d[k] = v for every k in keys.
Store(d, keys, v) ==
    [k \in DOMAIN d \cup keys |-> IF k \in keys THEN v ELSE d[k]]

player_busy(cells, pid, slot, duration) ==
    \E t \in Range(slot, slot + duration) :
        \E c \in Range(1, request.config.court_count + 1) :
            /\ <<t, c>> \in DOMAIN cells
            /\ pid \in player_ids(matches[cells[<<t, c>>]])

available(pid, slot, duration) ==
    \/ pid \notin DOMAIN players
    \/ players[pid].availability = <<>>
    \/ \E i \in 1 .. Len(players[pid].availability) :
            \A t \in Range(slot, slot + duration) :
                /\ players[pid].availability[i][1] <= t
                /\ t < players[pid].availability[i][2]

feasible(cells, m, slot, court) ==
    /\ slot + m.duration_slots <= request.config.total_slots
    /\ occupies(slot, court, m.duration_slots) \cap DOMAIN cells = {}
    /\ \A pid \in player_ids(m) :
            /\ ~ player_busy(cells, pid, slot, m.duration_slots)
            /\ available(pid, slot, m.duration_slots)

Assignment(match_id, t, c, d, moved, prev_slot, prev_court) ==
    [ match_id          |-> match_id,
      slot_id           |-> t,
      court_id          |-> c,
      duration_slots    |-> d,
      moved             |-> moved,
      previous_slot_id  |-> prev_slot,
      previous_court_id |-> prev_court ]

\* Line 130 and line 132: the previous placement of a locked id is taken.
TakesLock(match_id) ==
    /\ match_id \in locked
    /\ match_id \in DOMAIN previous_assignments
    /\ previous_assignments[match_id].slot_id
            + matches[match_id].duration_slots <= request.config.total_slots

\* Lines 124-143: the loop over the first ids of order.
RECURSIVE honour_locks(_)
honour_locks(ids) ==
    IF ids = <<>>
    THEN [cells |-> slot_court_to_match, assigned |-> match_to_assignment]
    ELSE LET before == honour_locks(SubSeq(ids, 1, Len(ids) - 1))
             match_id == ids[Len(ids)]
             m == matches[match_id]
             prev == previous_assignments[match_id]
         IN IF TakesLock(match_id)
            THEN [ cells    |-> Store(before.cells,
                                      occupies(prev.slot_id, prev.court_id,
                                               m.duration_slots),
                                      match_id),
                   assigned |-> Store(before.assigned, {match_id},
                                      Assignment(match_id, prev.slot_id,
                                                 prev.court_id, m.duration_slots,
                                                 FALSE, {}, {})) ]
            ELSE before

GreedyHonourLocks ==
    /\ pc = "greedy_configured"
    /\ slot_court_to_match' = honour_locks(order).cells
    /\ match_to_assignment' = honour_locks(order).assigned
    /\ pc' = "greedy_locked"
    /\ UNCHANGED <<caller_vars, request, first_run, matches, match_order, players,
                   previous_assignments, prev_order, locked_matches, x,
                   start_slot, end_slot, model, infeasible_reasons,
                   solver_calls, result, locked, moved_count>>

\* Lines 153-158: the (t, c) tried, in the order tried, that are feasible.
FeasibleCells(cells, m) ==
    {tc \in Range(0, request.config.total_slots - m.duration_slots + 1)
            \X Range(1, request.config.court_count + 1) :
        feasible(cells, m, tc[1], tc[2])}

FirstCell(S) ==
    CHOOSE tc \in S :
        \A o \in S : tc[1] < o[1] \/ (tc[1] = o[1] /\ tc[2] <= o[2])

\* Lines 164 and 168: bool(prev and (prev.slot_id != t or prev.court_id != c)).
greedy_moved(match_id, t, c) ==
    /\ match_id \in DOMAIN previous_assignments
    /\ \/ previous_assignments[match_id].slot_id # t
       \/ previous_assignments[match_id].court_id # c

\* Lines 159-172: the match is placed at (t, c).
PlaceAt(before, match_id, t, c) ==
    LET m == matches[match_id]
        has_prev == match_id \in DOMAIN previous_assignments
    IN [ cells    |-> Store(before.cells, occupies(t, c, m.duration_slots),
                            match_id),
         assigned |-> Store(before.assigned, {match_id},
                            Assignment(match_id, t, c, m.duration_slots,
                                       greedy_moved(match_id, t, c),
                                       IF has_prev
                                       THEN {previous_assignments[match_id].slot_id}
                                       ELSE {},
                                       IF has_prev
                                       THEN {previous_assignments[match_id].court_id}
                                       ELSE {})),
         moved    |-> before.moved
                      + (IF greedy_moved(match_id, t, c) THEN 1 ELSE 0) ]

\* Lines 145-174: the loop over the first ids of order.
RECURSIVE first_fit(_)
first_fit(ids) ==
    IF ids = <<>>
    THEN [ cells    |-> slot_court_to_match,
           assigned |-> match_to_assignment,
           moved    |-> moved_count ]
    ELSE LET before == first_fit(SubSeq(ids, 1, Len(ids) - 1))
             match_id == ids[Len(ids)]
             free == FeasibleCells(before.cells, matches[match_id])
         IN IF match_id \in DOMAIN before.assigned \/ free = {}
            THEN before
            ELSE PlaceAt(before, match_id, FirstCell(free)[1], FirstCell(free)[2])

GreedyPlace ==
    /\ pc = "greedy_locked"
    /\ slot_court_to_match' = first_fit(order).cells
    /\ match_to_assignment' = first_fit(order).assigned
    /\ moved_count' = first_fit(order).moved
    /\ pc' = "greedy_placed"
    /\ UNCHANGED <<caller_vars, request, first_run, matches, match_order, players,
                   previous_assignments, prev_order, locked_matches, x,
                   start_slot, end_slot, model, infeasible_reasons,
                   solver_calls, result, locked>>

\* A result that reports the unplaced matches without a reason.
greedy_result_silent ==
    LET assignments ==
            [i \in 1 .. Len(SelectSeq(order,
                                LAMBDA mid : mid \in DOMAIN match_to_assignment)) |->
                match_to_assignment[
                    SelectSeq(order,
                        LAMBDA mid : mid \in DOMAIN match_to_assignment)[i]]]
        unscheduled ==
            SelectSeq(order, LAMBDA mid : mid \notin DOMAIN match_to_assignment)
    IN ScheduleResult(IF unscheduled = <<>> THEN "feasible" ELSE "infeasible",
                      assignments, <<>>,
                      unscheduled, moved_count, Cardinality(locked))

\* Lines 176-192.
greedy_result ==
    LET assignments ==
            [i \in 1 .. Len(SelectSeq(order,
                                LAMBDA mid : mid \in DOMAIN match_to_assignment)) |->
                match_to_assignment[
                    SelectSeq(order,
                        LAMBDA mid : mid \in DOMAIN match_to_assignment)[i]]]
        unscheduled ==
            SelectSeq(order, LAMBDA mid : mid \notin DOMAIN match_to_assignment)
    IN ScheduleResult(IF unscheduled = <<>> THEN "feasible" ELSE "infeasible",
                      assignments,
                      IF unscheduled = <<>> THEN <<>>
                      ELSE <<Reason("greedy_unplaced", "", unscheduled)>>,
                      unscheduled, moved_count, Cardinality(locked))

GreedyReturn ==
    /\ pc = "greedy_placed"
    /\ result' = greedy_result
    /\ pc' = "greedy_done"
    /\ UNCHANGED <<caller_vars, request, first_run, matches, match_order, players,
                   previous_assignments, prev_order, locked_matches, x,
                   start_slot, end_slot, model, infeasible_reasons,
                   solver_calls, greedy_vars>>

(***************************************************************************)
(* A caller solves a second time: a new CPSATScheduler is constructed for  *)
(* a request derived from the first one and its result.                    *)
(***************************************************************************)
\* One locked PreviousAssignment per assignment of a result.
LockedFrom(assignments) ==
    [i \in 1 .. Len(assignments) |->
        [ match_id        |-> assignments[i].match_id,
          slot_id         |-> assignments[i].slot_id,
          court_id        |-> assignments[i].court_id,
          locked          |-> TRUE,
          pinned_slot_id  |-> {},
          pinned_court_id |-> {} ]]

\* CPSATScheduler.__init__: the state of a newly constructed scheduler.
NewScheduler ==
    /\ pc' = "new"
    /\ matches' = << >>
    /\ match_order' = << >>
    /\ players' = << >>
    /\ previous_assignments' = << >>
    /\ prev_order' = << >>
    /\ locked_matches' = {}
    /\ x' = {}
    /\ start_slot' = << >>
    /\ end_slot' = << >>
    /\ model' = EmptyModel
    /\ infeasible_reasons' = << >>
    /\ solver_calls' = 0
    /\ result' = NoResult
    /\ UNCHANGED greedy_vars

SolveAgainLocked ==
    /\ pc = "done"
    /\ first_run.kind = "relock_pending"
    /\ result.status \in {"optimal", "feasible"}
    /\ request' = [request EXCEPT
                    !.previous_assignments = LockedFrom(result.assignments)]
    /\ first_run' = [kind |-> "relock", result |-> result]
    /\ NewScheduler
    /\ UNCHANGED caller_vars

\* The same request with the empty availability of one participant
\* replaced by the window (0, total_slots).
SolveAgainWidened ==
    /\ pc = "done"
    /\ first_run.kind = "widen_pending"
    /\ \E i \in 1 .. Len(request.players) :
            /\ request.players[i].availability = <<>>
            /\ request' = [request EXCEPT !.players[i].availability =
                                <<<<0, request.config.total_slots>>>>]
            /\ first_run' = [kind   |-> "widen",
                             player |-> request.players[i].id,
                             first  |-> first_run]
    /\ NewScheduler
    /\ UNCHANGED caller_vars

Next ==
    \/ Configure
    \/ CreateVariables
    \/ LinkStartToX
    \/ AddExactlyOnce
    \/ AddCourtCapacity
    \/ AddPlayerNonoverlap
    \/ AddAvailability
    \/ AddLockPin
    \/ AddFreezeHorizon
    \/ AddRest
    \/ AddGameProximity
    \/ BuildObjective
    \/ Solve
    \/ GreedyConfigure
    \/ GreedyHonourLocks
    \/ GreedyPlace
    \/ GreedyReturn
    \/ SolveAgainLocked
    \/ SolveAgainWidened

(***************************************************************************)
(* Requests.  Every specification draws one request in Init; they differ   *)
(* in the part of the request they vary.                                   *)
(***************************************************************************)
\* ScheduleConfig with its dataclass defaults.  A weight is a float in the
\* code; the model stores it in hundredths (disruption_penalty 1.0 is 100).
\* Game proximity and the compact schedule modes are off.
Config(T, C, overlap, soft_rest, default_rest, current, horizon) ==
    [ total_slots            |-> T,
      court_count            |-> C,
      default_rest_slots     |-> default_rest,
      freeze_horizon_slots   |-> horizon,
      current_slot           |-> current,
      soft_rest_enabled      |-> soft_rest,
      rest_slack_penalty     |-> 1000,
      disruption_penalty     |-> 100,
      late_finish_penalty    |-> 50,
      court_change_penalty   |-> 50,
      enable_court_utilization  |-> TRUE,
      court_utilization_penalty |-> 5000,
      player_overlap_penalty |-> 5000,
      enable_game_proximity  |-> FALSE,
      min_game_spacing_slots |-> {},
      max_game_spacing_slots |-> {},
      game_proximity_penalty |-> 500,
      enable_compact_schedule  |-> FALSE,
      compact_schedule_mode    |-> "minimize_makespan",
      compact_schedule_penalty |-> 10000,
      target_finish_slot     |-> {},
      interval_minutes       |-> 30,
      allow_player_overlap   |-> overlap ]

Player(id, availability, rest_slots, rest_is_hard) ==
    [ id |-> id, availability |-> availability,
      rest_slots |-> rest_slots, rest_is_hard |-> rest_is_hard,
      rest_penalty |-> 1000 ]

Match(id, d, side_a, side_b) ==
    [ id |-> id, duration_slots |-> d, side_a |-> side_a, side_b |-> side_b ]

PreviousAssignment(m, t, c, is_locked, pinned_slot_id, pinned_court_id) ==
    [ match_id |-> m, slot_id |-> t, court_id |-> c, locked |-> is_locked,
      pinned_slot_id |-> pinned_slot_id, pinned_court_id |-> pinned_court_id ]

ScheduleRequest(config, ps, ms, prev) ==
    [ config |-> config, players |-> ps, matches |-> ms,
      previous_assignments |-> prev ]

Durations == 1 .. MaxDuration

\* The sides of the second match: it shares p1 with the first match, it
\* shares p2 (on the other side), or it shares nobody and has one
\* participant on both sides.
SecondSides ==
    { <<<<"p1">>, <<"p3">>>>, <<<<"p3">>, <<"p2">>>>, <<<<"p3">>, <<"p3">>>> }

\* No match, one match, two matches, and a list that repeats an id.
MatchLists ==
    {<<>>}
    \cup {<<Match("m1", d, <<"p1">>, <<"p2">>)>> : d \in Durations}
    \cup {<<Match("m1", d1, <<"p1">>, <<"p2">>), Match("m2", d2, sd[1], sd[2])>> :
            d1 \in Durations, d2 \in Durations, sd \in SecondSides}
    \cup {<<Match("m1", d1, <<"p1">>, <<"p2">>), Match("m1", d2, <<"p3">>, <<"p1">>)>> :
            d1 \in Durations, d2 \in Durations}

\* A shorter list: the second match lasts one slot and shares p1 or nobody.
ShortMatchLists ==
    {<<>>}
    \cup {<<Match("m1", d, <<"p1">>, <<"p2">>)>> : d \in Durations}
    \cup {<<Match("m1", d, <<"p1">>, <<"p2">>), Match("m2", 1, sd[1], sd[2])>> :
            d \in Durations,
            sd \in { <<<<"p1">>, <<"p3">>>>, <<<<"p3">>, <<"p3">>>> }}

\* Three players with the same rest requirement and no availability limits.
PlainPlayers(rest) ==
    << Player("p1", <<>>, rest, TRUE), Player("p2", <<>>, rest, TRUE),
       Player("p3", <<>>, rest, TRUE) >>

\* Requests that vary the horizon, the courts, the matches, the overlap
\* switch and the rest requirement, with no previous assignment or with a
\* locked one for m1 (at a cell that exists for short matches, or at a slot
\* past the horizon).
CoreRequests ==
    {ScheduleRequest(Config(T, C, ov, FALSE, 1, 0, 0), PlainPlayers(r), ms, prev) :
        T \in 1 .. MaxSlots, C \in 1 .. MaxCourts, ov \in BOOLEAN,
        r \in {0, MaxRest}, ms \in MatchLists,
        prev \in { <<>>,
                   <<PreviousAssignment("m1", 1, 1, TRUE, {}, {})>>,
                   <<PreviousAssignment("m1", 0, MaxCourts + 1, TRUE, {}, {})>> }}

\* Requests that vary the rest requirement: p1 has no Player record, or a
\* hard or soft rest of 0..MaxRest slots; soft rest is enabled or not.
RestPlayers ==
    { << Player("p2", <<>>, 0, TRUE), Player("p3", <<>>, 0, TRUE) >> }
    \cup { << Player("p1", <<>>, r, h), Player("p2", <<>>, 0, TRUE),
              Player("p3", <<>>, 0, TRUE) >> : r \in 0 .. MaxRest, h \in BOOLEAN }

TwoMatchLists == {ms \in ShortMatchLists : Len(ms) = 2}

CourtCounts == {1, MaxCourts}

RestRequests ==
    {ScheduleRequest(Config(T, C, FALSE, soft, dr, 0, 0), ps, ms, <<>>) :
        T \in 1 .. MaxSlots, C \in CourtCounts, soft \in BOOLEAN,
        dr \in 0 .. MaxRest, ps \in RestPlayers, ms \in TwoMatchLists}

\* Requests with a soft rest of MaxRest slots for p1, who plays both
\* matches: the rest weight of p1 is 0.05, 0.1 or the default 10.0, and the
\* other weights are the defaults or all 0 with court utilization off.
SoftRestRequests ==
    LET weights == {5, 10, 1000}
        soft_players(w) ==
            << [Player("p1", <<>>, MaxRest, FALSE) EXCEPT !.rest_penalty = w],
               Player("p2", <<>>, 0, TRUE), Player("p3", <<>>, 0, TRUE) >>
        rest_only(config) ==
            [config EXCEPT !.disruption_penalty = 0,
                           !.late_finish_penalty = 0,
                           !.court_change_penalty = 0,
                           !.enable_court_utilization = FALSE,
                           !.player_overlap_penalty = 0]
    IN {ScheduleRequest(IF bare
                        THEN rest_only(Config(T, C, FALSE, TRUE, 0, 0, 0))
                        ELSE Config(T, C, FALSE, TRUE, 0, 0, 0),
                        soft_players(w), ms, <<>>) :
            T \in {MaxSlots - 1, MaxSlots}, C \in CourtCounts, bare \in BOOLEAN,
            w \in weights,
            ms \in {ms \in TwoMatchLists : "p1" \in get_player_ids(ms[2])}}

\* Requests that vary the availability of p1 (up to two windows,
\* adjacent, overlapping or apart) and of p3.
Windows == {w \in (0 .. MaxSlots) \X (0 .. MaxSlots) : w[1] < w[2]}

AvailabilityLists ==
    {<<>>} \cup {<<w>> : w \in Windows}
    \cup {<<vw[1], vw[2]>> : vw \in {p \in Windows \X Windows : p[1][1] <= p[2][1]}}

AvailRequests ==
    {ScheduleRequest(Config(T, C, FALSE, FALSE, 0, 0, 0),
                     << Player("p1", a1, 0, TRUE), Player("p2", <<>>, 0, TRUE),
                        Player("p3", a3, 0, TRUE) >>, ms, <<>>) :
        T \in 1 .. MaxSlots, C \in {MaxCourts}, a1 \in AvailabilityLists,
        a3 \in {<<>>, <<<<0, 1>>>>}, ms \in ShortMatchLists}

\* Requests that vary the previous assignments: m1 has none, or one at any
\* slot of the longest horizon and any court that is locked (with or
\* without pins) or not locked (pinned or not); m2 has none or a locked
\* one, listed with an entry for an unknown match.  current_slot and
\* freeze_horizon_slots vary with them.
Pins == { <<{}, {}>>, <<{0}, {}>>, <<{}, {MaxCourts}>>, <<{1}, {MaxCourts}>> }

FirstPrevious ==
    {<<>>} \cup
    {<<PreviousAssignment("m1", t, c, FALSE, pin[1], pin[2])>> :
        t \in 0 .. (MaxSlots - 1), c \in CourtCounts, pin \in Pins}
    \cup
    {<<PreviousAssignment("m1", t, c, TRUE, pin[1], pin[2])>> :
        t \in 0 .. (MaxSlots - 1), c \in CourtCounts,
        pin \in { <<{}, {}>>, <<{1}, {MaxCourts}>> }}

SecondPrevious ==
    { <<>>, << PreviousAssignment("m2", 0, 1, TRUE, {1}, {}),
               PreviousAssignment("m9", 0, 1, TRUE, {}, {}) >> }

FreezeWindows == { <<0, 0>>, <<0, MaxSlots>>, <<1, 1>> }

PrevRequests ==
    {ScheduleRequest(Config(T, C, FALSE, FALSE, 0, fw[1], fw[2]),
                     PlainPlayers(0), ms, p1 \o p2) :
        T \in {MaxSlots - 1, MaxSlots}, C \in CourtCounts,
        fw \in FreezeWindows,
        ms \in ShortMatchLists \ {<<>>}, p1 \in FirstPrevious,
        p2 \in SecondPrevious}

\* Requests with a compact-schedule mode that adds per-match terms: m1 has
\* no previous assignment or one, locked or not, at the first or the last
\* slot, inside or outside the freeze window.
CompactRequests ==
    {ScheduleRequest(
        [Config(MaxSlots, C, FALSE, FALSE, 0, fw[1], fw[2]) EXCEPT
            !.enable_compact_schedule = TRUE,
            !.compact_schedule_mode = mode,
            !.target_finish_slot = {1}],
        PlainPlayers(0), ms, prev) :
        C \in CourtCounts, fw \in FreezeWindows,
        mode \in {"minimize_makespan", "finish_by_time"},
        ms \in ShortMatchLists \ {<<>>},
        prev \in {<<>>} \cup
            {<<PreviousAssignment("m1", t, c, l, {}, {})>> :
                t \in {0, MaxSlots - 1}, c \in CourtCounts, l \in BOOLEAN}}

\* Requests for the greedy backend: m1 has no previous assignment or one,
\* locked or not, at any slot and at a court that may not exist; m2 has
\* none, a locked one at (0, 1) or a free one at (1, 1); p1 is always
\* available, only in slot 0, or only from slot 1 on.
GreedyFirstPrevious ==
    {<<>>} \cup
    {<<PreviousAssignment("m1", t, c, l, {}, {})>> :
        t \in 0 .. (MaxSlots - 1), c \in {1, MaxCourts, MaxCourts + 1},
        l \in BOOLEAN}

GreedySecondPrevious ==
    { <<>>, <<PreviousAssignment("m2", 0, 1, TRUE, {}, {})>>,
      <<PreviousAssignment("m2", 1, 1, FALSE, {}, {})>> }

GreedyRequests ==
    {ScheduleRequest(Config(T, C, FALSE, FALSE, 0, fw[1], fw[2]),
                     << Player("p1", a1, r, TRUE), Player("p2", <<>>, 0, TRUE),
                        Player("p3", <<>>, 0, TRUE) >>, ms, p1 \o p2) :
        T \in {MaxSlots - 1, MaxSlots}, C \in CourtCounts, r \in {0, MaxRest},
        fw \in FreezeWindows, a1 \in {<<>>, <<<<0, 1>>>>, <<<<1, MaxSlots>>>>},
        ms \in ShortMatchLists, p1 \in GreedyFirstPrevious,
        p2 \in GreedySecondPrevious}

\* Requests solved twice, the second time with the first result locked:
\* rests of 0 or MaxRest slots, and for m1 no previous assignment or a free
\* one pinned to slot 0, next to a locked entry for an unknown match.
RoundTripRequests ==
    {ScheduleRequest(Config(MaxSlots, C, FALSE, FALSE, 0, 0, 0),
                     PlainPlayers(r), ms, prev) :
        C \in CourtCounts, r \in {0, MaxRest}, ms \in ShortMatchLists,
        prev \in { <<>>,
                   <<PreviousAssignment("m1", 1, 1, FALSE, {0}, {}),
                     PreviousAssignment("m9", 0, 1, TRUE, {}, {})>> }}

\* Requests solved twice, the second time with an empty availability
\* replaced by the window (0, total_slots): p3 is limited or not, the rest
\* is 0 or MaxRest slots.
WidenRequests ==
    {ScheduleRequest(Config(T, C, FALSE, FALSE, 0, 0, 0),
                     << Player("p1", <<>>, r, TRUE), Player("p2", <<>>, r, TRUE),
                        Player("p3", a3, r, TRUE) >>, ms, <<>>) :
        T \in 1 .. MaxSlots, C \in CourtCounts, r \in {0, MaxRest},
        a3 \in {<<>>, <<<<0, 1>>>>}, ms \in ShortMatchLists}

(***************************************************************************)
(* Live operations (engine/live_ops.py) on a TournamentState, and the      *)
(* bridge (engine/bridge.py) that builds the request of a reschedule.      *)
(* An Optional value is a set: {} is None and {v} is v.                    *)
(***************************************************************************)
NoState == [play_units |-> << >>, assignments |-> << >>,
            assignment_order |-> << >>, results |-> << >>]

NoCall == [op |-> "none"]

\* No streaming request is being served.
NoStream ==
    /\ solve_thread = [pc |-> "none"]
    /\ solution_count = 0
    /\ holder = {}
    /\ loop_ready = << >>
    /\ progress_queue = << >>
    /\ consumer = "none"
    /\ emitted = << >>
    /\ enqueued = << >>

\* The state before any live operation: no tournament, no config.
NoTournament ==
    /\ state = NoState
    /\ schedule_config = Config(1, 1, FALSE, FALSE, 1, 0, 0)
    /\ call = NoCall
    /\ calls = 0
    /\ NoStream

TournamentAssignment(id, t, c, d, is_locked, pinned_slot_id, pinned_court_id) ==
    [ play_unit_id |-> id, slot_id |-> t, court_id |-> c,
      duration_slots |-> d, locked |-> is_locked,
      pinned_slot_id |-> pinned_slot_id, pinned_court_id |-> pinned_court_id,
      actual_start_slot |-> {}, actual_end_slot |-> {} ]

update_actuals(st, unit_id, actual_start_slot, actual_end_slot) ==
    IF unit_id \notin DOMAIN st.assignments
    THEN st
    ELSE [st EXCEPT
            !.assignments[unit_id].actual_start_slot = {actual_start_slot},
            !.assignments[unit_id].actual_end_slot = {actual_end_slot}]

\* A freeze that takes every assignment before the end of the window.
apply_freeze_horizon_from_slot_zero(st, cfg) ==
    [st EXCEPT !.assignments =
        [uid \in DOMAIN st.assignments |->
            IF st.assignments[uid].slot_id
                    < cfg.current_slot + cfg.freeze_horizon_slots
            THEN [st.assignments[uid] EXCEPT !.locked = TRUE]
            ELSE st.assignments[uid]]]

apply_freeze_horizon(st, cfg) ==
    LET current == cfg.current_slot
        horizon == cfg.freeze_horizon_slots
        until == current + horizon
    IN  [st EXCEPT !.assignments =
            [uid \in DOMAIN st.assignments |->
                IF current <= st.assignments[uid].slot_id
                        /\ st.assignments[uid].slot_id < until
                THEN [st.assignments[uid] EXCEPT !.locked = TRUE]
                ELSE st.assignments[uid]]]

\* The assignments of a result are stored one after the other; a new key is
\* appended to the dict, an old key keeps its place.
RECURSIVE result_from_schedule(_, _)
result_from_schedule(st, assignments) ==
    IF assignments = << >>
    THEN st
    ELSE LET a == Head(assignments)
             ta == TournamentAssignment(a.match_id, a.slot_id, a.court_id,
                                        a.duration_slots, FALSE, {}, {})
             known == a.match_id \in DOMAIN st.assignments
         IN  result_from_schedule(
                [st EXCEPT
                    !.assignments =
                        [uid \in DOMAIN st.assignments \cup {a.match_id} |->
                            IF uid = a.match_id THEN ta ELSE st.assignments[uid]],
                    !.assignment_order =
                        IF known THEN @ ELSE Append(@, a.match_id)],
                Tail(assignments))

handle_overrun(st, unit_id, actual_end_slot) ==
    IF unit_id \notin DOMAIN st.assignments
    THEN st
    ELSE update_actuals(st, unit_id, st.assignments[unit_id].slot_id,
                        actual_end_slot)

handle_no_show(st, unit_id, winner_side) ==
    [st EXCEPT !.results =
        [uid \in DOMAIN st.results \cup {unit_id} |->
            IF uid = unit_id
            THEN [winner_side |-> winner_side, walkover |-> TRUE]
            ELSE st.results[uid]]]

\* ScheduleConfig(total_slots=.., court_count=..) with the listed keyword
\* arguments of both callers: every other field takes its default.
ScheduleConfigFrom(cfg, T, C, horizon, current) ==
    [ Config(T, C, FALSE, cfg.soft_rest_enabled, cfg.default_rest_slots,
             current, horizon) EXCEPT
        !.interval_minutes     = cfg.interval_minutes,
        !.rest_slack_penalty   = cfg.rest_slack_penalty,
        !.disruption_penalty   = cfg.disruption_penalty,
        !.late_finish_penalty  = cfg.late_finish_penalty,
        !.court_change_penalty = cfg.court_change_penalty ]

\* An outage that may leave no court.
handle_court_outage_to_zero(cfg, excluded_court_ids) ==
    ScheduleConfigFrom(cfg, cfg.total_slots,
                       Cardinality({c \in Range(1, cfg.court_count + 1) :
                                        c \notin excluded_court_ids}),
                       cfg.freeze_horizon_slots, cfg.current_slot)

handle_court_outage(cfg, excluded_court_ids) ==
    LET new_count == Cardinality({c \in Range(1, cfg.court_count + 1) :
                                    c \notin excluded_court_ids})
    IN  ScheduleConfigFrom(cfg, cfg.total_slots, Max(1, new_count),
                           cfg.freeze_horizon_slots, cfg.current_slot)

LiveOpsConfig(horizon, current, rolling, max_units) ==
    [ freeze_horizon_slots |-> horizon, current_slot |-> current,
      rolling_horizon_slots |-> rolling, max_units |-> max_units ]

BridgeOptions(rolling, max_units, horizon, current) ==
    [ rolling_horizon_slots |-> rolling, max_units |-> max_units,
      freeze_horizon_slots |-> horizon, current_slot |-> current ]

\* SchedulingProblemBuilder.build; every play unit is a MATCH and every
\* participant has empty metadata.
build(st, ready_unit_ids, cfg, opts) ==
    LET expanded == SelectSeq(ready_unit_ids,
                              LAMBDA uid : uid \in DOMAIN st.play_units)
        unit_ids ==
            IF opts.max_units # {}
            THEN LET n == CHOOSE k \in opts.max_units : TRUE
                 IN  IF n >= 0 /\ n < Len(expanded)
                     THEN SubSeq(expanded, 1, n) ELSE expanded
            ELSE expanded
        value(option, default) ==
            IF option # {} THEN CHOOSE v \in option : TRUE ELSE default
        overridden ==
            IF opts.freeze_horizon_slots # {} \/ opts.current_slot # {}
            THEN ScheduleConfigFrom(cfg, cfg.total_slots, cfg.court_count,
                    value(opts.freeze_horizon_slots, cfg.freeze_horizon_slots),
                    value(opts.current_slot, cfg.current_slot))
            ELSE cfg
        max_slot == overridden.current_slot + value(opts.rolling_horizon_slots, 0)
        use_config ==
            IF value(opts.rolling_horizon_slots, 0) > 0
                    /\ max_slot < overridden.total_slots
            THEN ScheduleConfigFrom(overridden, max_slot, overridden.court_count,
                    overridden.freeze_horizon_slots, overridden.current_slot)
            ELSE overridden
        unit_id_set == {unit_ids[i] : i \in 1 .. Len(unit_ids)}
        pids == UNION {
            {st.play_units[u].side_a[i] : i \in 1 .. Len(st.play_units[u].side_a)}
            \cup {st.play_units[u].side_b[i] : i \in 1 .. Len(st.play_units[u].side_b)}
            : u \in unit_id_set}
        sorted == SelectSeq(<<"p1", "p2", "p3">>, LAMBDA p : p \in pids)
        kept == SelectSeq(st.assignment_order, LAMBDA uid : uid \in unit_id_set)
    IN  ScheduleRequest(
            use_config,
            [i \in 1 .. Len(sorted) |-> Player(sorted[i], << >>, 1, TRUE)],
            [i \in 1 .. Len(unit_ids) |->
                Match(unit_ids[i], st.play_units[unit_ids[i]].expected_duration_slots,
                      st.play_units[unit_ids[i]].side_a,
                      st.play_units[unit_ids[i]].side_b)],
            [i \in 1 .. Len(kept) |->
                PreviousAssignment(kept[i],
                    st.assignments[kept[i]].slot_id,
                    st.assignments[kept[i]].court_id,
                    st.assignments[kept[i]].locked,
                    st.assignments[kept[i]].pinned_slot_id,
                    st.assignments[kept[i]].pinned_court_id)])

\* reschedule, up to the call of backend.solve: the options it hands to the
\* bridge.  live_config and bridge_options are Optional.
reschedule_options(bridge_options, live_config) ==
    LET base == IF bridge_options # {} THEN CHOOSE b \in bridge_options : TRUE
                ELSE BridgeOptions({}, {}, {}, {})
        live == IF live_config # {} THEN CHOOSE l \in live_config : TRUE
                ELSE LiveOpsConfig(0, 0, {}, {})
    IN  BridgeOptions(
            IF live.rolling_horizon_slots # {} THEN live.rolling_horizon_slots
            ELSE base.rolling_horizon_slots,
            IF live.max_units # {} THEN live.max_units ELSE base.max_units,
            {live.freeze_horizon_slots},
            {live.current_slot})

(***************************************************************************)
(* A caller of the live operations.  Between two calls no solve is          *)
(* running; reschedule runs the CP-SAT backend on the request of the       *)
(* bridge and returns its result.                                          *)
(***************************************************************************)
solve_vars == <<request, pc, matches, match_order, players, previous_assignments,
                prev_order, locked_matches, x, start_slot, end_slot, model,
                infeasible_reasons, solver_calls, result, greedy_vars, first_run>>

\* Two play units that share p1, one slot each.
PlayUnits ==
    [uid \in {"m1", "m2"} |->
        [ id |-> uid, side_a |-> <<"p1">>,
          side_b |-> IF uid = "m1" THEN <<"p2">> ELSE <<"p3">>,
          expected_duration_slots |-> 1 ]]

\* The schedules a tournament may have when the caller starts: none, m1
\* alone (free with a pinned court, or locked), or both units.
InitialAssignments ==
    { << >> }
    \cup {[uid \in {"m1"} |-> TournamentAssignment("m1", t, 1, 1, l, {}, {1})] :
            t \in {0, MaxSlots - 1}, l \in BOOLEAN}
    \cup {[uid \in {"m1", "m2"} |->
            IF uid = "m1" THEN TournamentAssignment("m1", 0, 1, 1, l, {}, {})
            ELSE TournamentAssignment("m2", MaxSlots - 1, MaxCourts, 1, FALSE, {}, {})] :
            l \in BOOLEAN}

\* Configs with default weights and switches, and one with other values.
LiveScheduleConfigs ==
    {Config(MaxSlots, MaxCourts, FALSE, FALSE, 1, w[1], w[2]) :
        w \in {<<0, 0>>, <<0, 1>>, <<1, 1>>}}
    \cup {[Config(MaxSlots, MaxCourts, TRUE, FALSE, 1, 1, 1) EXCEPT
            !.enable_court_utilization = FALSE,
            !.court_utilization_penalty = 100,
            !.enable_compact_schedule = TRUE,
            !.target_finish_slot = {MaxSlots - 1}]}

\* Court ids inside and outside 1 .. court_count.
ExcludedCourts == SUBSET (0 .. MaxCourts + 1)

ReadyLists == { <<"m1", "m2">>, <<"m2">> }

\* reschedule without live_config and bridge_options, with a live_config
\* that sets a rolling horizon, and with bridge_options that limit the units.
OptionChoices ==
    { [live_config |-> {}, bridge_options |-> {}],
      [live_config |-> {LiveOpsConfig(1, 0, {MaxSlots - 1}, {})},
       bridge_options |-> {}],
      [live_config |-> {}, bridge_options |-> {BridgeOptions({}, {1}, {1}, {1})}] }

\* The caller makes at most MaxCalls calls.
Idle ==
    /\ pc \in {"idle", "done"}
    /\ calls < MaxCalls
    /\ calls' = calls + 1

\* The unit the caller reports on.
UnitIds == {"m1"}

UpdateActuals ==
    /\ Idle
    /\ \E unit_id \in UnitIds :
        /\ state' = update_actuals(state, unit_id, 0, MaxActual)
        /\ call' = [op |-> "update_actuals", before |-> state,
                    unit_id |-> unit_id,
                    actual_start_slot |-> 0, actual_end_slot |-> MaxActual]
    /\ UNCHANGED <<schedule_config, solve_vars, stream_vars>>

ApplyFreezeHorizon ==
    /\ Idle
    /\ state' = apply_freeze_horizon(state, schedule_config)
    /\ call' = [op |-> "apply_freeze_horizon", before |-> state]
    /\ UNCHANGED <<schedule_config, solve_vars, stream_vars>>

ResultFromSchedule ==
    /\ Idle
    /\ pc = "done"
    /\ state' = result_from_schedule(state, result.assignments)
    /\ call' = [op |-> "result_from_schedule", before |-> state]
    /\ UNCHANGED <<schedule_config, solve_vars, stream_vars>>

HandleOverrun ==
    /\ Idle
    /\ \E unit_id \in UnitIds :
        /\ state' = handle_overrun(state, unit_id, MaxActual)
        /\ call' = [op |-> "handle_overrun", before |-> state,
                    unit_id |-> unit_id, actual_end_slot |-> MaxActual]
    /\ UNCHANGED <<schedule_config, solve_vars, stream_vars>>

HandleNoShow ==
    /\ Idle
    /\ \E unit_id \in UnitIds, winner_side \in {"A"} :
        /\ state' = handle_no_show(state, unit_id, winner_side)
        /\ call' = [op |-> "handle_no_show", before |-> state]
    /\ UNCHANGED <<schedule_config, solve_vars, stream_vars>>

\* The caller goes on with the config that handle_court_outage returned.
HandleCourtOutage ==
    /\ Idle
    /\ \E excluded_court_ids \in ExcludedCourts :
        /\ schedule_config' = handle_court_outage(schedule_config, excluded_court_ids)
        /\ call' = [op |-> "handle_court_outage", config |-> schedule_config,
                    excluded_court_ids |-> excluded_court_ids]
    /\ UNCHANGED <<state, solve_vars, stream_vars>>

Reschedule ==
    /\ Idle
    /\ \E ready_unit_ids \in ReadyLists, options \in OptionChoices :
        /\ request' = build(state, ready_unit_ids, schedule_config,
                            reschedule_options(options.bridge_options,
                                               options.live_config))
        /\ call' = [op |-> "reschedule", before |-> state,
                    ready_unit_ids |-> ready_unit_ids,
                    live_config |-> options.live_config,
                    bridge_options |-> options.bridge_options]
    /\ NewScheduler
    /\ UNCHANGED <<state, schedule_config, first_run, stream_vars>>

LiveNext ==
    \/ UpdateActuals
    \/ ApplyFreezeHorizon
    \/ ResultFromSchedule
    \/ HandleOverrun
    \/ HandleNoShow
    \/ Reschedule
    \/ Configure
    \/ CreateVariables
    \/ LinkStartToX
    \/ AddExactlyOnce
    \/ AddCourtCapacity
    \/ AddPlayerNonoverlap
    \/ AddAvailability
    \/ AddLockPin
    \/ AddFreezeHorizon
    \/ AddRest
    \/ AddGameProximity
    \/ BuildObjective
    \/ Solve

InitLive ==
    /\ state \in {[play_units |-> PlayUnits, assignments |-> a,
                   assignment_order |->
                        SelectSeq(<<"m1", "m2">>, LAMBDA uid : uid \in DOMAIN a),
                   results |-> << >>] : a \in InitialAssignments}
    /\ schedule_config \in LiveScheduleConfigs
    /\ call = NoCall
    /\ calls = 0
    /\ request = ScheduleRequest(schedule_config, << >>, << >>, << >>)
    /\ pc = "idle"
    /\ matches = << >>
    /\ match_order = << >>
    /\ players = << >>
    /\ previous_assignments = << >>
    /\ prev_order = << >>
    /\ locked_matches = {}
    /\ x = {}
    /\ start_slot = << >>
    /\ end_slot = << >>
    /\ model = EmptyModel
    /\ infeasible_reasons = << >>
    /\ solver_calls = 0
    /\ result = NoResult
    /\ locked = {}
    /\ slot_court_to_match = << >>
    /\ match_to_assignment = << >>
    /\ moved_count = 0
    /\ first_run = NoRun
    /\ NoStream

LiveSpec == InitLive /\ [][LiveNext]_vars

\* handle_court_outage alone: the caller has a config, with the default
\* weights and switches or with others, and reports outages.
InitOutage ==
    /\ state = NoState
    /\ \E C \in 1 .. MaxCourts, cfg \in LiveScheduleConfigs :
            schedule_config = [cfg EXCEPT !.court_count = C]
    /\ call = NoCall
    /\ calls = 0
    /\ request = ScheduleRequest(schedule_config, << >>, << >>, << >>)
    /\ pc = "idle"
    /\ matches = << >>
    /\ match_order = << >>
    /\ players = << >>
    /\ previous_assignments = << >>
    /\ prev_order = << >>
    /\ locked_matches = {}
    /\ x = {}
    /\ start_slot = << >>
    /\ end_slot = << >>
    /\ model = EmptyModel
    /\ infeasible_reasons = << >>
    /\ solver_calls = 0
    /\ result = NoResult
    /\ locked = {}
    /\ slot_court_to_match = << >>
    /\ match_to_assignment = << >>
    /\ moved_count = 0
    /\ first_run = NoRun
    /\ NoStream

OutageNext == HandleCourtOutage

OutageSpec == InitOutage /\ [][OutageNext]_vars

(***************************************************************************)
(* The streaming endpoint (backend/api/schedule.py, event_generator).      *)
(* solve_in_thread runs in an executor thread; the solver's workers call   *)
(* ProgressCallback.on_solution_callback, which builds progress_data and   *)
(* hands it to progress_callback; the event loop runs the callbacks it was *)
(* handed and resumes the generator waiting on the queue.                  *)
(***************************************************************************)
Workers == {"w1", "w2"}

\* A worker found a solution: on_solution_callback counts it and builds
\* progress_data (cpsat_backend.py, up to line 185).
FindSolution ==
    /\ solve_thread.pc = "solving"
    /\ solution_count < MaxSolutions
    /\ \E w \in Workers :
        /\ solve_thread.progress_data[w] = {}
        /\ solve_thread' = [solve_thread EXCEPT !.progress_data[w] =
                                {[type |-> "progress",
                                  solution_count |-> solution_count + 1]}]
    /\ solution_count' = solution_count + 1
    /\ UNCHANGED <<holder, loop_ready, progress_queue, consumer, emitted,
                   enqueued, tournament_vars, solve_vars>>

\* self.callback_fn(progress_data): progress_callback hands the event to
\* loop.call_soon_threadsafe.
ProgressCallback ==
    /\ solve_thread.pc = "solving"
    /\ \E w \in Workers :
        /\ solve_thread.progress_data[w] # {}
        /\ LET event == CHOOSE e \in solve_thread.progress_data[w] : TRUE
           IN  /\ loop_ready' = Append(loop_ready, event)
               /\ enqueued' = Append(enqueued, event)
        /\ solve_thread' = [solve_thread EXCEPT !.progress_data[w] = {}]
    /\ UNCHANGED <<solution_count, holder, progress_queue, consumer, emitted,
                   tournament_vars, solve_vars>>

\* The conversions and scheduler.build() are done; solver.Solve starts.
StartSolving ==
    /\ solve_thread.pc = "converting"
    /\ solve_thread' = [solve_thread EXCEPT !.pc = "solving"]
    /\ UNCHANGED <<solution_count, holder, loop_ready, progress_queue,
                   consumer, emitted, enqueued, tournament_vars, solve_vars>>

\* scheduler.solve returned: every callback has returned.
SolveReturns ==
    /\ solve_thread.pc = "solving"
    /\ \A w \in Workers : solve_thread.progress_data[w] = {}
    /\ holder' = holder \cup {"result"}
    /\ solve_thread' = [solve_thread EXCEPT !.pc = "signalling"]
    /\ UNCHANGED <<solution_count, loop_ready, progress_queue, consumer,
                   emitted, enqueued, tournament_vars, solve_vars>>

\* An exception inside the try block, before or after solutions were found.
SolveRaises ==
    /\ solve_thread.pc \in {"converting", "solving"}
    /\ \A w \in Workers : solve_thread.progress_data[w] = {}
    /\ holder' = holder \cup {"error"}
    /\ solve_thread' = [solve_thread EXCEPT !.pc = "signalling"]
    /\ UNCHANGED <<solution_count, loop_ready, progress_queue, consumer,
                   emitted, enqueued, tournament_vars, solve_vars>>

\* Lines 157-161: the 'done' event is handed to the loop.
SignalDone ==
    /\ solve_thread.pc = "signalling"
    /\ loop_ready' = Append(loop_ready, [type |-> "done"])
    /\ solve_thread' = [solve_thread EXCEPT !.pc = "exited"]
    /\ UNCHANGED <<solution_count, holder, progress_queue, consumer, emitted,
                   enqueued, tournament_vars, solve_vars>>

\* An event loop that runs the newest callback first.
RunNewestCallback ==
    /\ loop_ready # << >>
    /\ progress_queue' = Append(progress_queue, loop_ready[Len(loop_ready)])
    /\ loop_ready' = SubSeq(loop_ready, 1, Len(loop_ready) - 1)
    /\ UNCHANGED <<solve_thread, solution_count, holder, consumer, emitted,
                   enqueued, tournament_vars, solve_vars>>

\* The event loop runs the oldest callback: progress_queue.put_nowait(event).
RunCallback ==
    /\ loop_ready # << >>
    /\ progress_queue' = Append(progress_queue, Head(loop_ready))
    /\ loop_ready' = Tail(loop_ready)
    /\ UNCHANGED <<solve_thread, solution_count, holder, consumer, emitted,
                   enqueued, tournament_vars, solve_vars>>

\* Lines 167-182: one turn of the while loop of event_generator.
NextEvent ==
    /\ consumer = "waiting"
    /\ progress_queue # << >>
    /\ progress_queue' = Tail(progress_queue)
    /\ LET event == Head(progress_queue)
       IN  IF event.type = "done"
           THEN /\ emitted' =
                    IF "error" \in holder
                    THEN Append(emitted, [type |-> "error"])
                    ELSE IF "result" \in holder
                         THEN Append(emitted, [type |-> "complete"])
                         ELSE emitted
                /\ consumer' = "finished"
           ELSE /\ emitted' = IF event.type = "progress"
                              THEN Append(emitted, event) ELSE emitted
                /\ UNCHANGED consumer
    /\ UNCHANGED <<solve_thread, solution_count, holder, loop_ready, enqueued,
                   tournament_vars, solve_vars>>

StreamNext ==
    \/ StartSolving
    \/ FindSolution
    \/ ProgressCallback
    \/ SolveReturns
    \/ SolveRaises
    \/ SignalDone
    \/ RunCallback
    \/ NextEvent

\* event_generator after loop.run_in_executor(None, solve_in_thread).
InitStream ==
    /\ solve_thread = [pc |-> "converting",
                       progress_data |-> [w \in Workers |-> {}]]
    /\ solution_count = 0
    /\ holder = {}
    /\ loop_ready = << >>
    /\ progress_queue = << >>
    /\ consumer = "waiting"
    /\ emitted = << >>
    /\ enqueued = << >>
    /\ state = NoState
    /\ schedule_config = Config(1, 1, FALSE, FALSE, 1, 0, 0)
    /\ call = NoCall
    /\ calls = 0
    /\ request = ScheduleRequest(schedule_config, << >>, << >>, << >>)
    /\ pc = "idle"
    /\ matches = << >>
    /\ match_order = << >>
    /\ players = << >>
    /\ previous_assignments = << >>
    /\ prev_order = << >>
    /\ locked_matches = {}
    /\ x = {}
    /\ start_slot = << >>
    /\ end_slot = << >>
    /\ model = EmptyModel
    /\ infeasible_reasons = << >>
    /\ solver_calls = 0
    /\ result = NoResult
    /\ locked = {}
    /\ slot_court_to_match = << >>
    /\ match_to_assignment = << >>
    /\ moved_count = 0
    /\ first_run = NoRun

\* The executor thread runs to the end of solve_in_thread, the event loop
\* runs every callback it was handed, and the generator is resumed when
\* the queue holds an event.
StreamSpec ==
    /\ InitStream
    /\ [][StreamNext]_vars
    /\ WF_vars(SignalDone)
    /\ WF_vars(RunCallback)
    /\ WF_vars(NextEvent)

(***************************************************************************)
(* Knockout advancement (competition/advancement.py) on the units of a     *)
(* bracket (competition/generation.py).  state.play_units is the dict of   *)
(* the CompetitionGraph and state.results the results registry.  The id    *)
(* "<event>-r<round>-<index>" of a unit is the pair <<round, index>>.      *)
(***************************************************************************)
\* BracketGenerationPolicy.generate: the round-1 matches of one event.
PlayUnit(id, side_a, side_b, dependencies) ==
    [ id |-> id, side_a |-> side_a, side_b |-> side_b,
      expected_duration_slots |-> 1, dependencies |-> dependencies,
      metadata |-> [round |-> id[1], bracket_match |-> id[2]] ]

Bracket ==
    [id \in {1} \X (0 .. MaxBracketMatch) |->
        PlayUnit(id, <<<<"a", id[2]>>>>, <<<<"b", id[2]>>>>, << >>)]

\* _winner_id: {} is None.
winner_id(unit, res) ==
    IF res.winner_side = "none" THEN {}
    ELSE IF res.winner_side = "A" /\ unit.side_a # << >> THEN {unit.side_a[1]}
    ELSE IF res.winner_side = "B" /\ unit.side_b # << >> THEN {unit.side_b[1]}
    ELSE {}

\* KnockoutAdvancementPolicy.on_result; bracket_match ^ 1 is the other
\* index of the pair {2k, 2k + 1}.
on_result(unit_id, res, play_units, results_registry) ==
    IF unit_id \notin DOMAIN play_units
    THEN play_units
    ELSE LET unit == play_units[unit_id]
             bracket_match == unit.metadata.bracket_match
             r2_idx == bracket_match \div 2
             sibling == IF bracket_match % 2 = 0 THEN bracket_match + 1
                        ELSE bracket_match - 1
             sibling_id == <<1, sibling>>
             r2_id == <<2, r2_idx>>
         IN  IF \/ unit.metadata.round # 1
                \/ sibling_id \notin DOMAIN play_units
                \/ sibling_id \notin DOMAIN results_registry
             THEN play_units
             ELSE LET r1_a == winner_id(unit, res)
                      r1_b == winner_id(play_units[sibling_id],
                                        results_registry[sibling_id])
                  IN  IF r1_a = {} \/ r1_b = {} \/ r2_id \in DOMAIN play_units
                      THEN play_units
                      ELSE [id \in DOMAIN play_units \cup {r2_id} |->
                                IF id = r2_id
                                THEN PlayUnit(r2_id,
                                        <<CHOOSE w \in r1_a : TRUE>>,
                                        <<CHOOSE w \in r1_b : TRUE>>,
                                        <<unit_id, sibling_id>>)
                                ELSE play_units[id]]

\* A match was played: the caller enters its result in the registry.
RegisterResult ==
    /\ \E unit_id \in (DOMAIN state.play_units) \ (DOMAIN state.results),
          winner_side \in {"A", "B", "none"} :
        /\ state' = [state EXCEPT !.results =
                        [id \in DOMAIN state.results \cup {unit_id} |->
                            IF id = unit_id
                            THEN [winner_side |-> winner_side, walkover |-> FALSE]
                            ELSE state.results[id]]]
        /\ call' = [op |-> "register_result", unit_id |-> unit_id]
    /\ UNCHANGED <<schedule_config, calls, solve_vars, stream_vars>>

\* The caller tells the policy about a result of the registry.
OnResult ==
    /\ \E unit_id \in DOMAIN state.results :
        /\ state' = [state EXCEPT !.play_units =
                        on_result(unit_id, state.results[unit_id],
                                  state.play_units, state.results)]
        /\ call' = [op |-> "on_result", unit_id |-> unit_id]
    /\ UNCHANGED <<schedule_config, calls, solve_vars, stream_vars>>

KnockoutNext ==
    \/ RegisterResult
    \/ OnResult

InitKnockout ==
    /\ state = [NoState EXCEPT !.play_units = Bracket]
    /\ schedule_config = Config(1, 1, FALSE, FALSE, 1, 0, 0)
    /\ call = NoCall
    /\ calls = 0
    /\ NoStream
    /\ request = ScheduleRequest(schedule_config, << >>, << >>, << >>)
    /\ pc = "idle"
    /\ matches = << >>
    /\ match_order = << >>
    /\ players = << >>
    /\ previous_assignments = << >>
    /\ prev_order = << >>
    /\ locked_matches = {}
    /\ x = {}
    /\ start_slot = << >>
    /\ end_slot = << >>
    /\ model = EmptyModel
    /\ infeasible_reasons = << >>
    /\ solver_calls = 0
    /\ result = NoResult
    /\ locked = {}
    /\ slot_court_to_match = << >>
    /\ match_to_assignment = << >>
    /\ moved_count = 0
    /\ first_run = NoRun

KnockoutSpec == InitKnockout /\ [][KnockoutNext]_vars

InitWith(requests) ==
    /\ request \in requests
    /\ pc = "new"
    /\ matches = << >>
    /\ match_order = << >>
    /\ players = << >>
    /\ previous_assignments = << >>
    /\ prev_order = << >>
    /\ locked_matches = {}
    /\ x = {}
    /\ start_slot = << >>
    /\ end_slot = << >>
    /\ model = EmptyModel
    /\ infeasible_reasons = << >>
    /\ solver_calls = 0
    /\ result = NoResult
    /\ locked = {}
    /\ slot_court_to_match = << >>
    /\ match_to_assignment = << >>
    /\ moved_count = 0
    /\ first_run = NoRun
    /\ NoTournament

\* The same fresh state, about to enter GreedyBackend.solve.
InitGreedy(requests) ==
    /\ request \in requests
    /\ pc = "greedy_new"
    /\ matches = << >>
    /\ match_order = << >>
    /\ players = << >>
    /\ previous_assignments = << >>
    /\ prev_order = << >>
    /\ locked_matches = {}
    /\ x = {}
    /\ start_slot = << >>
    /\ end_slot = << >>
    /\ model = EmptyModel
    /\ infeasible_reasons = << >>
    /\ solver_calls = 0
    /\ result = NoResult
    /\ locked = {}
    /\ slot_court_to_match = << >>
    /\ match_to_assignment = << >>
    /\ moved_count = 0
    /\ first_run = NoRun
    /\ NoTournament

\* The same fresh state, for a request that will be solved twice.
InitTwice(requests, kind) ==
    /\ request \in requests
    /\ pc = "new"
    /\ matches = << >>
    /\ match_order = << >>
    /\ players = << >>
    /\ previous_assignments = << >>
    /\ prev_order = << >>
    /\ locked_matches = {}
    /\ x = {}
    /\ start_slot = << >>
    /\ end_slot = << >>
    /\ model = EmptyModel
    /\ infeasible_reasons = << >>
    /\ solver_calls = 0
    /\ result = NoResult
    /\ locked = {}
    /\ slot_court_to_match = << >>
    /\ match_to_assignment = << >>
    /\ moved_count = 0
    /\ first_run = [kind |-> kind]
    /\ NoTournament

(***************************************************************************)
(* Properties of the returned ScheduleResult.  They are stated on the      *)
(* request and the result only.                                            *)
(***************************************************************************)
Returned == pc = "done"

Solved == Returned /\ result.status \in {"optimal", "feasible"}

RequestMatchIds == {request.matches[i].id : i \in 1 .. Len(request.matches)}

\* The match an assignment is for (the last one listed under its id).
RequestMatch(id) ==
    request.matches[CHOOSE i \in 1 .. Len(request.matches) :
        /\ request.matches[i].id = id
        /\ \A j \in (i + 1) .. Len(request.matches) : request.matches[j].id # id]

Participants(id) ==
    {RequestMatch(id).side_a[i] : i \in 1 .. Len(RequestMatch(id).side_a)}
    \cup {RequestMatch(id).side_b[i] : i \in 1 .. Len(RequestMatch(id).side_b)}

\* The Player records of the request with id p (none or one).
PlayerRecords(p) ==
    {request.players[i] : i \in {j \in 1 .. Len(request.players) :
                                    request.players[j].id = p}}

AssignmentIndexes == 1 .. Len(result.assignments)

Disjoint(a, b) ==
    \/ a.slot_id + a.duration_slots <= b.slot_id
    \/ b.slot_id + b.duration_slots <= a.slot_id

\* C1: in every OPTIMAL/FEASIBLE result there is exactly one assignment for
\* each match id of the request, and no assignment for any other id.
C1_ExactlyOneAssignmentPerMatch ==
    Solved =>
        /\ \A id \in RequestMatchIds :
                Cardinality({i \in AssignmentIndexes :
                                result.assignments[i].match_id = id}) = 1
        /\ \A i \in AssignmentIndexes :
                result.assignments[i].match_id \in RequestMatchIds

C1_Witness ==
    /\ Solved
    /\ Len(result.assignments) = 2
    /\ Len(request.matches) = 2

\* C2: in every OPTIMAL/FEASIBLE result two distinct assignments on the same
\* court occupy disjoint slot intervals, whatever the durations.
C2_CourtIntervalsDisjoint ==
    Solved =>
        \A i, j \in AssignmentIndexes :
            (i # j /\ result.assignments[i].court_id = result.assignments[j].court_id)
                => Disjoint(result.assignments[i], result.assignments[j])

C2_Witness ==
    /\ Solved
    /\ \E i, j \in AssignmentIndexes :
            /\ i # j
            /\ result.assignments[i].court_id = result.assignments[j].court_id
            /\ result.assignments[i].duration_slots > 1
            /\ Participants(result.assignments[i].match_id)
                \cap Participants(result.assignments[j].match_id) = {}

\* C3: with allow_player_overlap off, in every OPTIMAL/FEASIBLE result two
\* distinct assignments whose matches share a participant occupy disjoint
\* slot intervals, on whatever courts.
C3_ParticipantIntervalsDisjoint ==
    (Solved /\ ~ request.config.allow_player_overlap) =>
        \A i, j \in AssignmentIndexes :
            (i # j /\ Participants(result.assignments[i].match_id)
                        \cap Participants(result.assignments[j].match_id) # {})
                => Disjoint(result.assignments[i], result.assignments[j])

C3_Witness ==
    /\ Solved
    /\ ~ request.config.allow_player_overlap
    /\ \E i, j \in AssignmentIndexes :
            /\ i # j
            /\ result.assignments[i].court_id # result.assignments[j].court_id
            /\ "p2" \in Participants(result.assignments[i].match_id)
                        \cap Participants(result.assignments[j].match_id)

\* C4: in every OPTIMAL/FEASIBLE result, for a participant whose rest is
\* hard (rest_is_hard on their record, or soft rest disabled), any two
\* assigned matches of theirs are separated by at least their rest_slots
\* (default_rest_slots without a record) between the end of the earlier and
\* the start of the later.
RestSlotsOf(p) ==
    IF PlayerRecords(p) = {} THEN request.config.default_rest_slots
    ELSE (CHOOSE r \in PlayerRecords(p) : TRUE).rest_slots

RestIsHardFor(p) ==
    \/ \E r \in PlayerRecords(p) : r.rest_is_hard
    \/ ~ request.config.soft_rest_enabled

Rested(a, b, rest) ==
    \/ a.slot_id + a.duration_slots + rest <= b.slot_id
    \/ b.slot_id + b.duration_slots + rest <= a.slot_id

C4_HardRestSeparation ==
    Solved =>
        \A i, j \in AssignmentIndexes :
            \A p \in Participants(result.assignments[i].match_id)
                        \cap Participants(result.assignments[j].match_id) :
                (i # j /\ RestIsHardFor(p))
                    => Rested(result.assignments[i], result.assignments[j],
                              RestSlotsOf(p))

C4_Witness ==
    /\ Solved
    /\ request.config.soft_rest_enabled
    /\ \E i, j \in AssignmentIndexes :
            /\ i # j
            /\ "p1" \in Participants(result.assignments[i].match_id)
                        \cap Participants(result.assignments[j].match_id)
            /\ RestIsHardFor("p1")
            /\ RestSlotsOf("p1") >= 1
            /\ result.assignments[j].slot_id < result.assignments[i].slot_id

\* C5: in every OPTIMAL/FEASIBLE result, for every assignment and every
\* participant of its match with a non-empty availability list, one single
\* window of that participant contains the whole interval of the match.
InsideOneWindow(a, availability) ==
    \E i \in 1 .. Len(availability) :
        /\ availability[i][1] <= a.slot_id
        /\ a.slot_id + a.duration_slots <= availability[i][2]

C5_AvailabilityWindowContainsMatch ==
    Solved =>
        \A i \in AssignmentIndexes :
            \A p \in Participants(result.assignments[i].match_id) :
                \A r \in PlayerRecords(p) :
                    r.availability # <<>>
                        => InsideOneWindow(result.assignments[i], r.availability)

\* A two-slot match of a participant whose two windows are adjacent.
C5_Witness ==
    /\ Solved
    /\ \E i \in AssignmentIndexes :
        \E r \in PlayerRecords("p1") :
            /\ "p1" \in Participants(result.assignments[i].match_id)
            /\ result.assignments[i].duration_slots = 2
            /\ Len(r.availability) = 2
            /\ r.availability[1][2] = r.availability[2][1]

\* The previous assignments of the request that name one of its matches.
KnownPrevious ==
    {request.previous_assignments[i] :
        i \in {j \in 1 .. Len(request.previous_assignments) :
                request.previous_assignments[j].match_id \in RequestMatchIds}}

InFreezeWindow(pa) ==
    /\ request.config.current_slot <= pa.slot_id
    /\ pa.slot_id < request.config.current_slot
                    + request.config.freeze_horizon_slots

AssignmentsOf(id) ==
    {result.assignments[i] :
        i \in {j \in AssignmentIndexes : result.assignments[j].match_id = id}}

\* C6: in every OPTIMAL/FEASIBLE result, every match with a locked previous
\* assignment, and every match with a non-locked previous assignment whose
\* slot lies in [current_slot, current_slot + freeze_horizon_slots), is
\* assigned the slot and court of its previous assignment with moved=false.
C6_LockedAndFrozenUnchanged ==
    Solved =>
        \A pa \in KnownPrevious :
            (pa.locked \/ InFreezeWindow(pa)) =>
                \E a \in AssignmentsOf(pa.match_id) :
                    /\ a.slot_id = pa.slot_id
                    /\ a.court_id = pa.court_id
                    /\ a.moved = FALSE

\* C7: in every OPTIMAL/FEASIBLE result a match whose previous assignment
\* is not locked is at its pinned slot when one is set and on its pinned
\* court when one is set; a match whose previous assignment is locked is at
\* the locked slot and court, whatever its pins say.
C7_PinsHonouredLocksOverridePins ==
    Solved =>
        \A pa \in KnownPrevious :
            \E a \in AssignmentsOf(pa.match_id) :
                IF pa.locked
                THEN a.slot_id = pa.slot_id /\ a.court_id = pa.court_id
                ELSE /\ pa.pinned_slot_id # {} => a.slot_id \in pa.pinned_slot_id
                     /\ pa.pinned_court_id # {} => a.court_id \in pa.pinned_court_id

\* m1 pinned to slot 0 only and placed on another court than before, next
\* to m2 locked at slot 0 although its pin names slot 1.
C7_Witness ==
    /\ Solved
    /\ \E pa \in KnownPrevious : \E a \in AssignmentsOf(pa.match_id) :
            /\ ~ pa.locked
            /\ pa.pinned_slot_id = {0}
            /\ pa.pinned_court_id = {}
            /\ a.slot_id = 0
            /\ a.court_id # pa.court_id
    /\ \E pa \in KnownPrevious : \E a \in AssignmentsOf(pa.match_id) :
            /\ pa.locked
            /\ pa.pinned_slot_id # {}
            /\ a.slot_id \notin pa.pinned_slot_id

\* The matches the freeze horizon fixed: in the internal locked set
\* without a locked previous assignment.
FrozenByHorizon ==
    locked_matches \ {pa.match_id : pa \in {q \in KnownPrevious : q.locked}}

Differs(pa, a) == pa.slot_id # a.slot_id \/ pa.court_id # a.court_id

HasVariable(id, t, c) ==
    /\ 0 <= t
    /\ t + RequestMatch(id).duration_slots <= request.config.total_slots
    /\ 1 <= c
    /\ c <= request.config.court_count

PreconditionFails ==
    \/ \E id \in RequestMatchIds :
            RequestMatch(id).duration_slots > request.config.total_slots
    \/ \E pa \in KnownPrevious :
            pa.locked /\ ~ HasVariable(pa.match_id, pa.slot_id, pa.court_id)

\* C9: when compilation records a pre-condition reason, solve returns
\* without invoking the solver: INFEASIBLE, exactly the recorded reasons,
\* no assignment, every match id of the request unscheduled.
C9_PreconditionShortCircuit ==
    /\ pc \in {"built", "done"} => (PreconditionFails <=> infeasible_reasons # <<>>)
    /\ (Returned /\ PreconditionFails) =>
        /\ solver_calls = 0
        /\ result.status = "infeasible"
        /\ result.infeasible_reasons = infeasible_reasons
        /\ result.infeasible_reasons # <<>>
        /\ result.assignments = <<>>
        /\ SeqToSet(result.unscheduled_matches) = RequestMatchIds
        /\ Len(result.unscheduled_matches) = Cardinality(RequestMatchIds)

\* Both kinds of reason recorded for one request.
C9_Witness ==
    /\ Returned
    /\ Len(result.infeasible_reasons) = 2
    /\ result.infeasible_reasons[1].kind = "no_valid_slots"
    /\ result.infeasible_reasons[2].kind = "locked_invalid"
    /\ Len(request.matches) = 2

\* C10: whenever the status is not OPTIMAL/FEASIBLE the backend still
\* returns a ScheduleResult, with a reason, no assignment and every match
\* id of the request unscheduled.
C10_FailureResultIsPopulated ==
    (Returned /\ result.status \notin {"optimal", "feasible"}) =>
        /\ result.status \in {"infeasible", "unknown", "model_invalid"}
        /\ result.infeasible_reasons # <<>>
        /\ result.assignments = <<>>
        /\ RequestMatchIds \subseteq SeqToSet(result.unscheduled_matches)

\* Two one-slot matches sharing p1 on a one-slot horizon with two courts:
\* capacity suffices, only the shared participant makes it infeasible.
C10_Witness ==
    /\ Returned
    /\ result.status = "infeasible"
    /\ solver_calls = 1
    /\ request.config.total_slots = 1
    /\ request.config.court_count = 2
    /\ Len(request.matches) = 2
    /\ \A i \in 1 .. Len(request.matches) :
            /\ request.matches[i].duration_slots = 1
            /\ request.matches[i].side_a = <<"p1">>
    /\ RequestMatchIds = {"m1", "m2"}
    /\ Len(result.infeasible_reasons) = 1

(***************************************************************************)
(* Properties of the results of both backends.                             *)
(***************************************************************************)
GreedyReturned == pc = "greedy_done"

AnyReturned == Returned \/ GreedyReturned

HasSolution == result.status \in {"optimal", "feasible"}

\* C11 as stated: every result of either backend has assignments iff its
\* status is OPTIMAL/FEASIBLE, and has infeasible_reasons iff it has no
\* assignments.
C11_AssignmentsIffSolvedReasonsIffNone ==
    AnyReturned =>
        /\ result.assignments # <<>> <=> HasSolution
        /\ result.infeasible_reasons # <<>> <=> result.assignments = <<>>

\* C11 amended: every result of either backend has infeasible_reasons iff
\* its status is not OPTIMAL/FEASIBLE; an OPTIMAL/FEASIBLE result has
\* assignments iff the request has a match; a CP-SAT result of another
\* status has no assignments, a greedy INFEASIBLE result keeps the matches
\* it placed and lists the others as unscheduled.
C11_ReasonsIffUnsolved ==
    AnyReturned =>
        /\ result.infeasible_reasons # <<>> <=> ~ HasSolution
        /\ HasSolution =>
            (result.assignments # <<>> <=> request.matches # <<>>)
        /\ (Returned /\ ~ HasSolution) => result.assignments = <<>>
        /\ (GreedyReturned /\ ~ HasSolution) =>
            /\ result.unscheduled_matches # <<>>
            /\ SeqToSet(result.unscheduled_matches)
                \cap {result.assignments[i].match_id : i \in AssignmentIndexes} = {}
            /\ SeqToSet(result.unscheduled_matches)
                \cup {result.assignments[i].match_id : i \in AssignmentIndexes}
                    = RequestMatchIds

\* The greedy backend placed m1 and could not place m2.
C11_Witness ==
    /\ GreedyReturned
    /\ result.status = "infeasible"
    /\ Len(result.assignments) = 1
    /\ result.unscheduled_matches = <<"m2">>
    /\ result.infeasible_reasons # <<>>

\* The three malformations the spec names, read off the request.
UnknownParticipant ==
    \E i \in 1 .. Len(request.matches) :
        \E pid \in SeqToSet(request.matches[i].side_a)
                    \cup SeqToSet(request.matches[i].side_b) :
            \A j \in 1 .. Len(request.players) : request.players[j].id # pid

UnknownPreviousMatch ==
    \E i \in 1 .. Len(request.previous_assignments) :
        request.previous_assignments[i].match_id \notin RequestMatchIds

OverCapacity ==
    SumOver(1 .. Len(request.matches),
            [i \in 1 .. Len(request.matches) |-> request.matches[i].duration_slots])
        > request.config.total_slots * request.config.court_count

Malformed == UnknownParticipant \/ UnknownPreviousMatch \/ OverCapacity

\* C12: a malformed request handed to schedule() is rejected with a
\* ValidationError and no solve is attempted: the backend never returns a
\* ScheduleResult for it and the solver is never invoked.
C12_MalformedRequestRejected ==
    Malformed =>
        /\ solver_calls = 0
        /\ Returned => result.status = "validation_error"

Cells(assignments) ==
    {<<assignments[i].match_id, assignments[i].slot_id, assignments[i].court_id>> :
        i \in 1 .. Len(assignments)}

\* C13: when the CP-SAT backend solved a request and the request is solved
\* again with one locked previous assignment per returned assignment, the
\* second solve is never INFEASIBLE and its solver, unless it gives up
\* (UNKNOWN, MODEL_INVALID), returns OPTIMAL/FEASIBLE with the same
\* (slot, court) for every match, moved_count = 0 and locked_count equal
\* to the number of matches.
C13_LockedRoundTrip ==
    (Returned /\ first_run.kind = "relock") =>
        /\ result.status # "infeasible"
        /\ infeasible_reasons = <<>>
        /\ solver_calls = 1
        /\ HasSolution =>
            /\ Cells(result.assignments) = Cells(first_run.result.assignments)
            /\ Len(result.assignments) = Len(first_run.result.assignments)
            /\ result.moved_count = 0
            /\ result.locked_count = Len(request.matches)

\* Two matches sharing p1, moved by the first solve, are solved again.
C13_Witness ==
    /\ Returned
    /\ first_run.kind = "relock"
    /\ HasSolution
    /\ first_run.result.moved_count = 1
    /\ result.locked_count = 2
    /\ \E i \in 1 .. Len(request.matches) :
            request.matches[i].id = "m2" /\ request.matches[i].side_a = <<"p1">>

(***************************************************************************)
(* C14: in every OPTIMAL or FEASIBLE result of the CP-SAT backend the sum  *)
(* of penalty_incurred over soft_violations is at most objective_score,    *)
(* for all non-negative weights (a weight below 0.1 included).  Penalties  *)
(* are in hundredths; an objective_score of None is read as 0.             *)
(***************************************************************************)
PenaltySum(violations) ==
    SumOver(violations, [v \in violations |-> v.penalty_incurred])

ScoreOf(score) == IF score = {} THEN 0 ELSE CHOOSE v \in score : TRUE

C14_PenaltiesWithinObjective ==
    Solved =>
        PenaltySum(result.soft_violations) <= 100 * ScoreOf(result.objective_score)

(***************************************************************************)
(* C15: replacing a participant's empty availability by the single window  *)
(* (0, total_slots) yields the same status, the same set of admissible     *)
(* assignments and, when infeasible, the same infeasible_reasons.  The     *)
(* results the second solve may return for the model it built are         *)
(* compared with those the first solve could return.                       *)
(***************************************************************************)
Widened == pc = "built" /\ first_run.kind = "widen"

SameStatusAndAssignments ==
    /\ Outlook.statuses = first_run.first.statuses
    /\ Outlook.admissible = first_run.first.admissible

ReasonsWith(outlook, status) ==
    {sr[2] : sr \in {sr \in outlook.reasons : sr[1] = status}}

OwnCapacityReason ==
    Reason("player_capacity", first_run.player,
           <<SlotsNeeded(first_run.player), request.config.total_slots>>)

WithoutOwnReason(reasons) ==
    SelectSeq(reasons, LAMBDA r : r # OwnCapacityReason)

GenericReason == <<Reason("unknown_cause", "", <<>>)>>

SameButOwnReason(before, after) ==
    \/ after = before
    \/ /\ SlotsNeeded(first_run.player) > request.config.total_slots
       /\ \E i \in 1 .. Len(after) : after[i] = OwnCapacityReason
       /\ WithoutOwnReason(after)
            = (IF before = GenericReason THEN <<>> ELSE before)

OverlapCase ==
    /\ Returned
    /\ first_run.kind = "none"
    /\ request.config.allow_player_overlap
    /\ request.config.total_slots = 1
    /\ request.config.court_count = 2
    /\ request.previous_assignments = <<>>
    /\ Len(request.matches) = 2
    /\ request.matches[1].id # request.matches[2].id
    /\ \A i \in 1 .. 2 : request.matches[i].duration_slots = 1
    /\ get_player_ids(request.matches[1]) \cap get_player_ids(request.matches[2]) # {}

C16_OverlapAllowedIsSolved ==
    (OverlapCase /\ result.status \notin {"unknown", "model_invalid"}) =>
        /\ Solved
        /\ Len(result.assignments) = 2
        /\ ScoreOf(result.objective_score)
                >= Coefficient(request.config.player_overlap_penalty)

(***************************************************************************)
(* C17: both backends treat a non-locked previous assignment as frozen     *)
(* (fixed at its cell and counted in locked_count) if and only if its      *)
(* slot_id lies in [current_slot, current_slot + freeze_horizon_slots); a  *)
(* slot_id below current_slot is not frozen.                               *)
(***************************************************************************)
\* The matches the backend that returned holds fixed.
HeldFixed == IF GreedyReturned THEN locked ELSE locked_matches

\* The non-locked previous assignments of matches of the request, one per
\* match.
FreePrevious ==
    {request.previous_assignments[i] :
        i \in {j \in 1 .. Len(request.previous_assignments) :
                /\ ~ request.previous_assignments[j].locked
                /\ request.previous_assignments[j].match_id \in RequestMatchIds
                /\ \A k \in 1 .. Len(request.previous_assignments) :
                        request.previous_assignments[k].match_id
                            = request.previous_assignments[j].match_id => k = j}}

C17_FrozenIffInFreezeWindow ==
    AnyReturned =>
        \A pa \in FreePrevious :
            pa.match_id \in HeldFixed <=> InFreezeWindow(pa)

(***************************************************************************)
(* C18: GreedyBackend.solve is first-fit.  Every match its second loop     *)
(* handles is placed at the lexicographically smallest (slot, court) that  *)
(* keeps the court cells free and every participant free given all         *)
(* placements so far, satisfies availability and ends within total_slots;  *)
(* it is unscheduled iff there is no such pair; the status is FEASIBLE iff  *)
(* nothing is unscheduled.                                                  *)
(***************************************************************************)
HeldPrevious ==
    {pa \in KnownPrevious :
        \/ pa.locked
        \/ pa.slot_id < request.config.current_slot
                            + request.config.freeze_horizon_slots}

\* The matches the first loop places: held, and ending inside the horizon.
LockPlaced ==
    {pa.match_id :
        pa \in {q \in HeldPrevious :
                    q.slot_id + RequestMatch(q.match_id).duration_slots
                        <= request.config.total_slots}}

PositionOf(id) ==
    CHOOSE i \in 1 .. Len(request.matches) : request.matches[i].id = id

ResultAssignments == {result.assignments[i] : i \in AssignmentIndexes}

\* The placements made before the second loop reaches match id.
SoFar(id) ==
    {a \in ResultAssignments :
        \/ a.match_id \in LockPlaced
        \/ PositionOf(a.match_id) < PositionOf(id)}

Fits(id, t, c) ==
    LET here == [slot_id |-> t,
                 duration_slots |-> RequestMatch(id).duration_slots]
    IN /\ t + here.duration_slots <= request.config.total_slots
       /\ \A a \in SoFar(id) :
            /\ a.court_id = c => Disjoint(a, here)
            /\ Participants(a.match_id) \cap Participants(id) # {}
                    => Disjoint(a, here)
       /\ \A q \in Participants(id) :
            \A rec \in PlayerRecords(q) :
                rec.availability # <<>> => InsideOneWindow(here, rec.availability)

FitsOf(id) ==
    {tc \in (0 .. request.config.total_slots)
                \X (1 .. request.config.court_count) : Fits(id, tc[1], tc[2])}

IsFirst(tc, S) ==
    /\ tc \in S
    /\ \A o \in S : tc[1] < o[1] \/ (tc[1] = o[1] /\ tc[2] <= o[2])

Unscheduled ==
    {result.unscheduled_matches[i] : i \in 1 .. Len(result.unscheduled_matches)}

C18_GreedyIsFirstFit ==
    GreedyReturned =>
        /\ \A id \in RequestMatchIds \ LockPlaced :
                IF FitsOf(id) = {}
                THEN id \in Unscheduled /\ AssignmentsOf(id) = {}
                ELSE /\ id \notin Unscheduled
                     /\ \E a \in AssignmentsOf(id) :
                            IsFirst(<<a.slot_id, a.court_id>>, FitsOf(id))
        /\ result.status = "feasible" <=> Unscheduled = {}

(***************************************************************************)
(* C19: the greedy backend honours every locked or frozen (slot_id below   *)
(* current_slot + freeze_horizon_slots) previous assignment: the match     *)
(* appears at exactly its previous (slot, court) with moved = false, and   *)
(* nowhere else.                                                           *)
(***************************************************************************)
C19_GreedyHonoursHeldAssignments ==
    GreedyReturned =>
        \A pa \in HeldPrevious :
            /\ AssignmentsOf(pa.match_id) # {}
            /\ \A a \in AssignmentsOf(pa.match_id) :
                    /\ a.slot_id = pa.slot_id
                    /\ a.court_id = pa.court_id
                    /\ ~ a.moved

(***************************************************************************)
(* C20: every greedy result respects court capacity, participant           *)
(* non-overlap and availability, also when locked previous assignments     *)
(* conflict: conflicting locks give INFEASIBLE, never a double-booked      *)
(* FEASIBLE result.                                                        *)
(***************************************************************************)
C20_GreedyRespectsHardConstraints ==
    GreedyReturned =>
        /\ \A a, b \in ResultAssignments :
                a.match_id # b.match_id =>
                    /\ a.court_id = b.court_id => Disjoint(a, b)
                    /\ Participants(a.match_id) \cap Participants(b.match_id) # {}
                            => Disjoint(a, b)
        /\ \A a \in ResultAssignments :
                \A q \in Participants(a.match_id) :
                    \A rec \in PlayerRecords(q) :
                        rec.availability # <<>>
                            => InsideOneWindow(a, rec.availability)

(***************************************************************************)
(* C21: the greedy backend obeys the rest contract of the CP-SAT backend.  *)
(* In every FEASIBLE result of GreedyBackend.solve two assigned matches    *)
(* sharing a participant with hard rest are separated by at least that     *)
(* participant's rest_slots between the end of the earlier and the start   *)
(* of the later.                                                           *)
(***************************************************************************)
C21_GreedyHardRestSeparation ==
    (GreedyReturned /\ result.status = "feasible") =>
        \A a, b \in ResultAssignments :
            \A q \in Participants(a.match_id) \cap Participants(b.match_id) :
                (a.match_id # b.match_id /\ RestIsHardFor(q))
                    => Rested(a, b, RestSlotsOf(q))

(***************************************************************************)
(* Properties of the live operations.                                      *)
(***************************************************************************)
\* The last live operation called was op, and nothing ran since.
Called(op) == call.op = op

\* An assignment of the tournament lies in the freeze window of the config.
InFreezeInterval(ta) ==
    /\ schedule_config.current_slot <= ta.slot_id
    /\ ta.slot_id < schedule_config.current_slot
                        + schedule_config.freeze_horizon_slots

(* C22: apply_freeze_horizon(state, cfg) sets locked on exactly the        *)
(* assignments with current_slot <= slot_id < current_slot +               *)
(* freeze_horizon_slots and changes nothing else: an assignment outside    *)
(* the interval keeps its locked flag, none is unlocked, slot, court,      *)
(* pins and actuals stay, the rest of the state stays, and a second call   *)
(* changes nothing.                                                        *)
C22_FreezeLocksExactlyTheInterval ==
    Called("apply_freeze_horizon") =>
        /\ DOMAIN state.assignments = DOMAIN call.before.assignments
        /\ \A uid \in DOMAIN call.before.assignments :
            LET old == call.before.assignments[uid]
                new == state.assignments[uid]
            IN  /\ new.locked = (old.locked \/ InFreezeInterval(old))
                /\ new = [old EXCEPT !.locked = new.locked]
        /\ state = [call.before EXCEPT !.assignments = state.assignments]
        /\ apply_freeze_horizon(state, schedule_config) = state

\* The call locked a free assignment inside the interval and left a free
\* assignment outside it free.
C22_Witness ==
    /\ Called("apply_freeze_horizon")
    /\ \E uid \in DOMAIN state.assignments :
        /\ InFreezeInterval(call.before.assignments[uid])
        /\ ~call.before.assignments[uid].locked
        /\ state.assignments[uid].locked
    /\ \E uid \in DOMAIN state.assignments :
        /\ ~InFreezeInterval(call.before.assignments[uid])
        /\ ~state.assignments[uid].locked

\* The courts of the config handed to handle_court_outage that are not
\* excluded.
RemainingCourts ==
    (1 .. call.config.court_count) \ call.excluded_court_ids

(* C23: handle_court_outage(cfg, excluded) returns a config whose          *)
(* court_count is the number of courts of 1 .. cfg.court_count that are    *)
(* not excluded, for every excluded set: empty, with ids outside the       *)
(* range, or with all courts.                                              *)
C23_CourtCountIsRemainingCourts ==
    Called("handle_court_outage") =>
        schedule_config.court_count = Cardinality(RemainingCourts)

(* C23, amended: the court_count returned is the number of remaining       *)
(* courts, and 1 when no court remains; with no court excluded it is       *)
(* cfg.court_count.                                                        *)
C23_CourtCountIsRemainingCourtsOrOne ==
    Called("handle_court_outage") =>
        /\ schedule_config.court_count = Max(1, Cardinality(RemainingCourts))
        /\ call.excluded_court_ids = {}
            => schedule_config.court_count = call.config.court_count

\* An outage of all the courts of a config with MaxCourts courts.
C23_Witness ==
    /\ Called("handle_court_outage")
    /\ call.config.court_count = MaxCourts
    /\ RemainingCourts = {}
    /\ schedule_config.court_count = 1

(* C24: handle_court_outage preserves every field of the config other      *)
(* than court_count.                                                       *)
C24_OutagePreservesOtherFields ==
    Called("handle_court_outage") =>
        schedule_config =
            [call.config EXCEPT !.court_count = schedule_config.court_count]

(***************************************************************************)
(* Properties of the streaming endpoint.                                   *)
(***************************************************************************)
Terminal == {"complete", "error"}

\* The progress events yielded so far are the first ones handed over, in
\* the order they were handed over; at most one terminal event was
\* yielded, it is the last event, and when the generator has finished
\* every progress event precedes it.
StreamOrder ==
    LET progress == SelectSeq(emitted, LAMBDA e : e.type = "progress")
    IN  /\ Len(progress) <= Len(enqueued)
        /\ progress = SubSeq(enqueued, 1, Len(progress))
        /\ \A i \in 1 .. Len(emitted) :
                emitted[i].type \in Terminal
                    => i = Len(emitted) /\ consumer = "finished"
        /\ consumer = "finished" =>
                /\ progress = enqueued
                /\ emitted # << >>
                /\ emitted[Len(emitted)].type =
                        IF "error" \in holder THEN "error" ELSE "complete"

(* C25: in the streaming solve, for every interleaving of the solver        *)
(* threads calling the progress callback and the event-loop consumer,      *)
(* every progress event handed over is emitted, in the order of the        *)
(* hand-over, then exactly one terminal event ('complete' or 'error') is   *)
(* emitted and no progress event after it; and once solve has returned or  *)
(* raised the consumer eventually terminates.                              *)
C25_StreamInOrderThenOneTerminal ==
    /\ []StreamOrder
    /\ (solve_thread.pc \in {"signalling", "exited"}) ~> (consumer = "finished")

\* Both workers handed over an event, in the order opposite to the one in
\* which they found their solutions, and the consumer has finished.
C25_Witness ==
    /\ consumer = "finished"
    /\ Len(enqueued) = MaxSolutions
    /\ \E i \in 1 .. Len(enqueued) - 1 :
            enqueued[i].solution_count > enqueued[i + 1].solution_count
    /\ emitted[Len(emitted)].type = "error"

(***************************************************************************)
(* Properties of the knockout advancement.                                 *)
(***************************************************************************)
\* The unit has a result with a winner.
Decisive(id) ==
    /\ id \in DOMAIN state.results
    /\ winner_id(state.play_units[id], state.results[id]) # {}

\* Two units of the same round whose bracket indexes are 2k and 2k + 1.
SiblingFeeders ==
    {pair \in (DOMAIN state.play_units) \X (DOMAIN state.play_units) :
        /\ pair[1][1] = pair[2][1]
        /\ pair[1][2] % 2 = 0
        /\ pair[2][2] = pair[1][2] + 1}

\* The match of the next round that the two feeders lead to exists, with
\* the feeders as its dependencies and their winners as its sides.
Advanced(a, b) ==
    LET next == <<a[1] + 1, a[2] \div 2>>
        winners == winner_id(state.play_units[a], state.results[a])
                    \cup winner_id(state.play_units[b], state.results[b])
    IN  /\ next \in DOMAIN state.play_units
        /\ SeqToSet(state.play_units[next].dependencies) = {a, b}
        /\ Len(state.play_units[next].dependencies) = 2
        /\ SeqToSet(state.play_units[next].side_a)
            \cup SeqToSet(state.play_units[next].side_b) = winners
        /\ Len(state.play_units[next].side_a) = 1
        /\ Len(state.play_units[next].side_b) = 1

(* C26: after KnockoutAdvancementPolicy.on_result was called for a unit,   *)
(* for every round r >= 1 and every pair of sibling feeders of round r     *)
(* that both have a decisive result and one of which the call was for,     *)
(* the round-(r+1) match exists, once, with the two feeders as its         *)
(* dependencies and their winners as its sides.                            *)
C26_BothFeedersDecidedCreatesNextRound ==
    Called("on_result") =>
        \A pair \in SiblingFeeders :
            (/\ Decisive(pair[1])
             /\ Decisive(pair[2])
             /\ call.unit_id \in {pair[1], pair[2]})
                => Advanced(pair[1], pair[2])

(***************************************************************************)
(* C27: CPSATScheduler.build runs its steps in the order variables,        *)
(* linkage, hard constraints (the freeze horizon among them), objective;   *)
(* so when the objective has been built every match with a locked          *)
(* previous assignment, and every match frozen by the horizon (a           *)
(* non-locked previous assignment with slot_id in [current_slot,           *)
(* current_slot + freeze_horizon_slots)), is in locked_matches, and the    *)
(* objective has no disruption, court-change, late-finish, makespan or     *)
(* finish-by-time overshoot term for it.                                   *)
(***************************************************************************)
ObjectiveTermMatches ==
    model.disruption \cup model.court_change \cup model.late_finish
        \cup model.makespan \cup model.overshoot

C27_NoObjectiveTermForLockedOrFrozen ==
    (pc = "built" /\ model.objective) =>
        \A m \in KnownPrev :
            (previous_assignments[m].locked
                \/ InFreezeWindow(previous_assignments[m]))
                    => m \in locked_matches /\ m \notin ObjectiveTermMatches

\* The assignments of the tournament that are locked or lie in the freeze
\* window of the config the caller supplied.
HeldUnits ==
    {uid \in DOMAIN state.assignments :
        state.assignments[uid].locked \/ InFreezeInterval(state.assignments[uid])}

\* The request the bridge built carries the assignment of a unit as a
\* previous assignment.
PassedAsPrevious(uid) ==
    \E i \in 1 .. Len(request.previous_assignments) :
        /\ request.previous_assignments[i].match_id = uid
        /\ request.previous_assignments[i].slot_id = state.assignments[uid].slot_id
        /\ request.previous_assignments[i].court_id = state.assignments[uid].court_id
        /\ request.previous_assignments[i].locked = state.assignments[uid].locked

\* The participants of a play unit of the tournament.
UnitParticipants(uid) ==
    {state.play_units[uid].side_a[i] : i \in 1 .. Len(state.play_units[uid].side_a)}
    \cup {state.play_units[uid].side_b[i] : i \in 1 .. Len(state.play_units[uid].side_b)}

(* C28: reschedule passes every frozen or locked assignment of             *)
(* state.assignments to the backend as a previous assignment, whether or   *)
(* not its unit is among ready_unit_ids, and the schedule it returns       *)
(* places no other unit on a (slot, court) cell or on a participant's time *)
(* that a locked assignment of the state takes.                            *)
C28_RescheduleKeepsLockedCellsAndTimes ==
    Called("reschedule") =>
        /\ \A uid \in HeldUnits : PassedAsPrevious(uid)
        /\ Solved =>
            \A i \in AssignmentIndexes, uid \in DOMAIN state.assignments :
                (state.assignments[uid].locked
                    /\ result.assignments[i].match_id # uid)
                    => \/ Disjoint(result.assignments[i], state.assignments[uid])
                       \/ /\ result.assignments[i].court_id
                                # state.assignments[uid].court_id
                          /\ UnitParticipants(result.assignments[i].match_id)
                                \cap UnitParticipants(uid) = {}

\* The actual start and end slots the last call recorded for a unit, if it
\* recorded any: update_actuals records its arguments, handle_overrun the
\* scheduled slot of the unit and its argument.
RecordedActuals(uid) ==
    IF call.op = "update_actuals" /\ call.unit_id = uid
    THEN <<{call.actual_start_slot}, {call.actual_end_slot}>>
    ELSE IF call.op = "handle_overrun" /\ call.unit_id = uid
    THEN <<{call.before.assignments[uid].slot_id}, {call.actual_end_slot}>>
    ELSE <<call.before.assignments[uid].actual_start_slot,
           call.before.assignments[uid].actual_end_slot>>

(* C29: an assignment that is locked before a call of update_actuals,      *)
(* handle_overrun, handle_no_show, reschedule or result_from_schedule is   *)
(* locked after it, at the same slot and court, with the same pins, and    *)
(* with the actual start and end slots it had, or those the call recorded  *)
(* for it; result_from_schedule does not clear the lock of a match the     *)
(* result returns at its locked cell.                                      *)
C29_LockedAssignmentsStayLocked ==
    (call.op \in {"update_actuals", "handle_overrun", "handle_no_show",
                  "reschedule", "result_from_schedule"}) =>
        \A uid \in DOMAIN call.before.assignments :
            call.before.assignments[uid].locked =>
                /\ uid \in DOMAIN state.assignments
                /\ state.assignments[uid].locked
                /\ state.assignments[uid].pinned_slot_id
                        = call.before.assignments[uid].pinned_slot_id
                /\ state.assignments[uid].pinned_court_id
                        = call.before.assignments[uid].pinned_court_id
                /\ state.assignments[uid].actual_start_slot
                        = RecordedActuals(uid)[1]
                /\ state.assignments[uid].actual_end_slot
                        = RecordedActuals(uid)[2]

(* C30: reschedule called without live_config and without bridge_options  *)
(* hands the backend a request whose config equals the supplied config in  *)
(* every field.                                                            *)
C30_RescheduleWithoutOptionsKeepsConfig ==
    (Called("reschedule") /\ call.live_config = {} /\ call.bridge_options = {})
        => request.config = schedule_config

Init ==
    \/ InitWith(CoreRequests)
    \/ InitWith(RestRequests)
    \/ InitWith(AvailRequests)
    \/ InitWith(PrevRequests)
    \/ InitWith(SoftRestRequests)
    \/ InitWith(CompactRequests)
    \/ InitGreedy(GreedyRequests)
    \/ InitTwice(RoundTripRequests, "relock_pending")
    \/ InitTwice(WidenRequests, "widen_pending")

Spec == Init /\ [][Next]_vars

====
